---- MODULE Spec2Model ----
(***************************************************************************)
(* A model of the bconf parser (bconf-lang/bconfjs).                       *)
(*                                                                         *)
(* JavaScript objects and arrays are references, so the model keeps a heap *)
(* of cells and values that point into it.  The parser is modelled line by *)
(* line: every action is one iteration of Parser.parseBlock (or the entry  *)
(* to / exit from an object block, or the end of the parse).               *)
(***************************************************************************)
EXTENDS Integers, Sequences, FiniteSets, TLC

VARIABLES
    heap,       \* the JavaScript heap: a sequence of cells, addressed by index
    result,     \* Parser.result: address of the root object of the document
    scopes,     \* the Scope chain, root scope first: addresses of Scope.variables
    blocks,     \* the object blocks being parsed (parseObject frames), outermost first
    status,     \* "parsing", "done" (parse resolved) or "failed" (parse rejected)
    err,        \* the value the parse rejected with
    out,        \* the value the parse resolved with
    exportedVariables,  \* Parser.exportedVariables: name -> value
    options,    \* the ParseOptions the running parser was constructed with
    resolvers,  \* Parser.tagResolvers and Parser.statementResolvers: name -> resolver
    builtIn,    \* BUILT_IN_TAG_RESOLVERS and BUILT_IN_STATEMENT_RESOLVERS
    parses,     \* number of parsers constructed so far
    lines,      \* number of block lines parsed so far
    history,    \* the lines parsed so far, in source order (history variable)
    last,       \* record of the line that was parsed last (history variable)
    lexer,      \* the fields of a Lexer, the tokens it has made and its state before the last one
    run         \* a parse over tokens: its parsers, innermost last, and its pending resolvers

vars == <<heap, result, scopes, blocks, status, err, out, exportedVariables, options,
          resolvers, builtIn, parses, lines, history, last, lexer, run>>

\* what the constructor of a parser sets up
setup == <<options, resolvers, builtIn, parses, lexer, run>>

(***************************************************************************)
(* Bounds of the model.                                                    *)
(***************************************************************************)
MaxLines == 3
MaxDepth == 1
MaxScopeLines == 4
MaxRefLines == 3
MaxMergeLines == 3
MaxArrayLines == 3
MaxStatementLines == 3
MaxModuleLines == 3
MaxDeclareLines == 3
MaxOptionLines == 2
MaxParses == 3
MaxStringLines == 3
MaxPayload == 8
MaxNumberLen == 4
MaxBracketLen == 4
MaxPositionLen == 5
MaxQuoteLen == 6
MaxTagLen == 5
MaxContextLen == 4
MaxTokenizeLen == 3
MaxKeyLen == 4
MaxSetLines == 2
MaxRunLines == 1
MaxNesting == 4

(***************************************************************************)
(* JavaScript values.  A container value is a pointer to a heap cell.      *)
(***************************************************************************)
NoIndex == -1

Null == [t |-> "null"]
Undef == [t |-> "undefined"]
Bool(b) == [t |-> "bool", b |-> b]
Num(n) == [t |-> "num", n |-> n]
Str(s) == [t |-> "str", s |-> s]
Ptr(p) == [t |-> "ptr", p |-> p]

EmptyMap == [k \in {} |-> Undef]

MapSet(o, k, v) == [x \in (DOMAIN o) \cup {k} |-> IF x = k THEN v ELSE o[x]]

\* A heap cell is an array or an object; an object carries its class.
ArrCell(a) == [t |-> "arr", a |-> a]
ObjCell(cls, o) == [t |-> "obj", cls |-> cls, o |-> o]

IsPtr(v) == v.t = "ptr"

IsArray(h, v) == IsPtr(v) /\ h[v.p].t = "arr"

isObject(h, v) == IsPtr(v) /\ h[v.p].t = "obj"

InstanceOf(h, v, cls) == IsPtr(v) /\ h[v.p].t = "obj" /\ h[v.p].cls = cls

\* A property key: a string key or, when index # NoIndex, an array index.
StrKey(k) == [key |-> k, index |-> NoIndex]
IdxKey(i) == [key |-> "", index |-> i]

\* parent[key]
GetProp(h, p, slot) ==
    LET c == h[p] IN
    IF slot.index # NoIndex
    THEN IF c.t = "arr" /\ slot.index < Len(c.a) THEN c.a[slot.index + 1] ELSE Undef
    ELSE IF c.t = "obj" /\ slot.key \in DOMAIN c.o THEN c.o[slot.key] ELSE Undef

\* parent[key] = v.  Writing past the end of an array leaves holes.
SetProp(h, p, slot, v) ==
    LET c == h[p] IN
    IF c.t = "arr"
    THEN LET n == IF slot.index + 1 > Len(c.a) THEN slot.index + 1 ELSE Len(c.a)
         IN [h EXCEPT ![p] = ArrCell([j \in 1..n |->
                IF j = slot.index + 1 THEN v
                ELSE IF j <= Len(c.a) THEN c.a[j] ELSE Undef])]
    ELSE [h EXCEPT ![p] = ObjCell(c.cls, MapSet(c.o, slot.key, v))]

\* array.push(v)
Push(h, p, v) == [h EXCEPT ![p] = ArrCell(Append(h[p].a, v))]

\* while (parent.length < key) parent.push(null)
PadNull(a, n) == [j \in 1..(IF n > Len(a) THEN n ELSE Len(a)) |->
                    IF j <= Len(a) THEN a[j] ELSE Null]

(***************************************************************************)
(* utils.js                                                                *)
(***************************************************************************)
ensureContainer(h, parent, slot, type) ==
    LET existing == GetProp(h, parent, slot)
        n == Len(h) + 1
        h1 == Append(h, IF type = "array" THEN ArrCell(<<>>) ELSE ObjCell("Object", EmptyMap))
    IN  IF type = "array" /\ IsArray(h, existing) THEN [h |-> h, c |-> existing.p]
        ELSE IF type = "object" /\ isObject(h, existing) THEN [h |-> h, c |-> existing.p]
        ELSE IF h[parent].t = "arr" /\ slot.index # NoIndex
        THEN LET padded == PadNull(h[parent].a, slot.index)
                 h2 == [h1 EXCEPT ![parent] = ArrCell(padded)]
             IN  IF slot.index >= Len(padded)
                 THEN [h |-> Push(h2, parent, Ptr(n)), c |-> n]
                 ELSE [h |-> SetProp(h2, parent, slot, Ptr(n)), c |-> n]
        ELSE [h |-> SetProp(h1, parent, slot, Ptr(n)), c |-> n]

RECURSIVE ParentWalk(_, _, _, _)
\* the end of one round of the loop: on to the next part
ParentNext(s, parts, i) == ParentWalk(s.h, s.c, parts, i + 1)

\* `if (hasIndex)` of the loop; s is where `if (hasKey)` left current
ParentIndex(s, parts, i) ==
    LET part == parts[i]
        nextPart == parts[i + 1]
        isNextPartArrayChain == nextPart.key = "" /\ nextPart.index # NoIndex
    IN  IF part.index = NoIndex THEN ParentNext(s, parts, i)
        ELSE IF i = Len(parts) THEN s
        ELSE ParentNext(ensureContainer(s.h, s.c, IdxKey(part.index),
                            IF isNextPartArrayChain THEN "array" ELSE "object"),
                        parts, i)

ParentWalk(h, current, parts, i) ==
    LET part == parts[i]
        isLastPart == (i = Len(parts))
        hasKey == part.key # ""
        hasIndex == part.index # NoIndex
    IN  IF i > Len(parts) THEN [h |-> h, c |-> current]
        ELSE IF hasKey /\ isLastPart /\ ~hasIndex THEN [h |-> h, c |-> current]
        ELSE IF hasKey
        THEN ParentIndex(ensureContainer(h, current, StrKey(part.key),
                                         IF hasIndex THEN "array" ELSE "object"),
                         parts, i)
        ELSE ParentIndex([h |-> h, c |-> current], parts, i)

getParentForKey(h, root, parts) == ParentWalk(h, root, parts, 1)

RECURSIVE ValueWalk(_, _, _, _)
\* `if (part.index !== null)` of the loop; current is what `if (part.key)` left
ValueIndex(h, current, parts, i) ==
    IF current = Undef THEN Undef
    ELSE IF parts[i].index = NoIndex THEN ValueWalk(h, current, parts, i + 1)
    ELSE IF ~IsArray(h, current) THEN Undef
    ELSE ValueWalk(h, GetProp(h, current.p, IdxKey(parts[i].index)), parts, i + 1)

ValueWalk(h, current, parts, i) ==
    IF i > Len(parts) THEN current
    ELSE IF current = Undef THEN Undef
    ELSE IF parts[i].key = "" THEN ValueIndex(h, current, parts, i)
    ELSE IF ~isObject(h, current) THEN Undef
    ELSE ValueIndex(h, GetProp(h, current.p, StrKey(parts[i].key)), parts, i)

getValueAtPath(h, root, parts) == ValueWalk(h, Ptr(root), parts, 1)

RECURSIVE MergeKeys(_, _, _, _)
\* a merge that never recurses: Object.assign(target, source)
MergeKeyShallow(h, target, key, sourceValue, targetValue) ==
    SetProp(h, target, StrKey(key), sourceValue)

\* one round of `for (const key of Object.keys(source))`
MergeKey(h, target, key, sourceValue, targetValue) ==
    IF isObject(h, sourceValue) /\ isObject(h, targetValue)
    THEN MergeKeys(h, targetValue.p, sourceValue.p, DOMAIN h[sourceValue.p].o)
    ELSE SetProp(h, target, StrKey(key), sourceValue)

\* Object.keys(source), visited in a fixed order
NextKey(ks) == CHOOSE k \in ks : TRUE

MergeKeys(h, target, source, ks) ==
    IF ks = {} THEN h
    ELSE MergeKeys(MergeKey(h, target, NextKey(ks),
                            GetProp(h, source, StrKey(NextKey(ks))),
                            GetProp(h, target, StrKey(NextKey(ks)))),
                   target, source, ks \ {NextKey(ks)})

deepMerge(h, target, source) == MergeKeys(h, target, source, DOMAIN h[source].o)

(***************************************************************************)
(* values.js                                                               *)
(***************************************************************************)
\* A key part as the parser builds it (parse.js, parseKeyLiteral).
Part(k) == [key |-> k, index |-> NoIndex, type |-> "alphanumeric"]
PartAt(k, i) == [key |-> k, index |-> i, type |-> "alphanumeric"]
IndexPart(i) == [key |-> "", index |-> i, type |-> "alphanumeric"]
VarPart(k) == [key |-> k, index |-> NoIndex, type |-> "variable"]

RECURSIVE SerializeFrom(_, _)
SerializeFrom(parts, i) ==
    IF i > Len(parts) THEN ""
    ELSE (IF parts[i].type = "index"
          THEN "[" \o ToString(parts[i].index) \o "]"
          ELSE (IF i > 1 THEN "." ELSE "") \o parts[i].key)
         \o SerializeFrom(parts, i + 1)

serialize(parts) == SerializeFrom(parts, 1)

\* The external (unwrapped) shapes: plain trees, no heap.
TArray(a) == [t |-> "array", a |-> a]
TObject(o) == [t |-> "object", o |-> o]

\* collection.last
CollectionLast(h, v) ==
    LET c == h[h[v.p].o.collected.p].a
    IN IF Len(c) = 0 THEN Undef ELSE c[Len(c)]

RECURSIVE unwrap(_, _)
\* unwrap without its Tag branch: a Tag falls through to the plain objects
unwrapWithoutTag(h, value) ==
    IF InstanceOf(h, value, "Statement") THEN unwrap(h, h[value.p].o.args)
    ELSE IF InstanceOf(h, value, "KeyPath") THEN Str(serialize(h[value.p].o.parts.ps))
    ELSE IF IsArray(h, value)
    THEN TArray([i \in 1..Len(h[value.p].a) |-> unwrap(h, h[value.p].a[i])])
    ELSE IF isObject(h, value) /\ ~InstanceOf(h, value, "Tag")
    THEN TObject([k \in DOMAIN h[value.p].o |-> unwrap(h, h[value.p].o[k])])
    ELSE value

unwrap(h, value) ==
    IF InstanceOf(h, value, "Statement") THEN unwrap(h, h[value.p].o.args)
    ELSE IF InstanceOf(h, value, "Tag")
    THEN TArray(<<h[value.p].o.name, unwrap(h, h[value.p].o.arg)>>)
    ELSE IF InstanceOf(h, value, "KeyPath") THEN Str(serialize(h[value.p].o.parts.ps))
    ELSE IF InstanceOf(h, value, "Collection") THEN unwrap(h, CollectionLast(h, value))
    ELSE IF IsArray(h, value)
    THEN TArray([i \in 1..Len(h[value.p].a) |-> unwrap(h, h[value.p].a[i])])
    ELSE IF isObject(h, value)
    THEN TObject([k \in DOMAIN h[value.p].o |-> unwrap(h, h[value.p].o[k])])
    ELSE value

\* The values a cell holds.
Children(c) == IF c.t = "arr" THEN {c.a[i] : i \in 1..Len(c.a)}
               ELSE {c.o[k] : k \in DOMAIN c.o}

\* A cell reachable from value lies on a cycle: the recursion of unwrap never ends.
RECURSIVE OnCycle(_, _, _)
OnCycle(h, value, path) ==
    /\ IsPtr(value)
    /\ \/ value.p \in path
       \/ \E x \in Children(h[value.p]) : OnCycle(h, x, path \cup {value.p})

(***************************************************************************)
(* parse.js                                                                *)
(***************************************************************************)
\* this.currentScope.variables
CurrentVariables == scopes[Len(scopes)]

\* Scope.resolve: the first scope, innermost first, where the path has a value.
RECURSIVE ResolveFrom(_, _, _)
ResolveStep(h, parts, i, value) ==
    IF value # Undef THEN value ELSE ResolveFrom(h, parts, i - 1)

ResolveFrom(h, parts, i) ==
    IF i = 0 THEN Undef
    ELSE ResolveStep(h, parts, i, getValueAtPath(h, scopes[i], parts))

ScopeResolve(h, parts) == ResolveFrom(h, parts, Len(scopes))

Ok(h, v) == [ok |-> TRUE, h |-> h, v |-> v, msg |-> ""]
Throw(h, msg) == [ok |-> FALSE, h |-> h, v |-> Undef, msg |-> msg]

\* The syntax of a value (what parseValue finds at the current token).
Lit(v) == [e |-> "lit", v |-> v]
ArrLit(elems) == [e |-> "array", elems |-> elems]
VarRef(parts) == [e |-> "var", path |-> parts]
Ident(parts) == [e |-> "ident", path |-> parts]
TagCall(name, arg) == [e |-> "tag", name |-> name, arg |-> arg]

\* a lookup that reads the variables of the current scope
lookupVariables(h, parts) == getValueAtPath(h, CurrentVariables, parts)

\* context.resolve of parseTag: the current document, never the variables
lookup(h, parts) == getValueAtPath(h, result, parts)

\* refResolver, `if (resolvedValue === undefined)`
RefResolved(h, parts, resolvedValue) ==
    IF resolvedValue = Undef
    THEN Throw(h, "no value exists at key '" \o serialize(parts) \o "'")
    ELSE Ok(h, resolvedValue)

\* refResolver; value is the tag's argument, a number stands for a numeric key
RefParts(value) == IF value.t = "num" THEN <<Part(ToString(value.n))>> ELSE value.parts

refResolver(h, value) ==
    IF value.t \notin {"keypath", "num"} THEN Throw(h, "expected key path for 'ref' tag")
    ELSE RefResolved(h, RefParts(value), lookup(h, RefParts(value)))

(***************************************************************************)
(* Characters and numbers: a text is a sequence of one-character strings.  *)
(***************************************************************************)
HexDigits == <<"0", "1", "2", "3", "4", "5", "6", "7", "8", "9", "a", "b", "c", "d", "e", "f">>
UpperHexDigits == <<"0", "1", "2", "3", "4", "5", "6", "7", "8", "9", "A", "B", "C", "D", "E", "F">>

IsHexDigit(c) == \E i \in 1..16 : HexDigits[i] = c \/ UpperHexDigits[i] = c

HexValue(c) == (CHOOSE i \in 1..16 : HexDigits[i] = c \/ UpperHexDigits[i] = c) - 1

NaN == [nan |-> TRUE, n |-> 0]

\* parseInt(string, 16): white space is skipped, a sign and a `0x` are taken,
\* then the digits up to the first character that is no hexadecimal digit
RECURSIVE SkipWhiteSpace(_, _), HexRun(_, _, _, _)
SkipWhiteSpace(chars, i) ==
    IF i <= Len(chars) /\ chars[i] \in {" ", "\t", "\n", "\r"}
    THEN SkipWhiteSpace(chars, i + 1)
    ELSE i

AfterSign(chars, i) == IF i <= Len(chars) /\ chars[i] \in {"+", "-"} THEN i + 1 ELSE i

AfterPrefix(chars, i) ==
    IF i + 1 <= Len(chars) /\ chars[i] = "0" /\ chars[i + 1] \in {"x", "X"}
    THEN i + 2 ELSE i

HexRun(chars, i, digits, n) ==
    IF i <= Len(chars) /\ IsHexDigit(chars[i])
    THEN HexRun(chars, i + 1, digits + 1, 16 * n + HexValue(chars[i]))
    ELSE IF digits = 0 THEN NaN
    ELSE [nan |-> FALSE, n |-> n]

Signed(negative, number) ==
    IF number.nan \/ ~negative THEN number ELSE [nan |-> FALSE, n |-> 0 - number.n]

ParseIntAt(chars, start) ==
    Signed(start <= Len(chars) /\ chars[start] = "-",
           HexRun(chars, AfterPrefix(chars, AfterSign(chars, start)), 0, 0))

parseInt16(chars) == ParseIntAt(chars, SkipWhiteSpace(chars, 1))

\* the code points of the characters the texts are written with
Characters == {"0", "1", "2", "3", "4", "5", "6", "7", "8", "9",
               "_", ".", "e", "E", "+", "-", "x", " ", "Z", "u", "U"}

CodePointAt(c) ==
    CASE c = "_" -> 95 [] c = "." -> 46 [] c = "e" -> 101 [] c = "E" -> 69
      [] c = "+" -> 43 [] c = "-" -> 45 [] c = "x" -> 120 [] c = " " -> 32
      [] c = "Z" -> 90 [] c = "u" -> 117 [] c = "U" -> 85
      [] OTHER -> 48 + HexValue(c)

\* the characters of a string value
fromCharCode(code) == CHOOSE c \in Characters : CodePointAt(c) = code
CharsOf(cps) == [i \in 1..Len(cps) |-> fromCharCode(cps[i])]

\* a number as mantissa and decimal exponent, without trailing zeros in the mantissa
RECURSIVE Normal(_, _), DigitCount(_)
Normal(m, e) ==
    IF m = 0 THEN [nan |-> FALSE, inf |-> FALSE, m |-> 0, e |-> 0]
    ELSE IF m % 10 = 0 THEN Normal(m \div 10, e + 1)
    ELSE [nan |-> FALSE, inf |-> FALSE, m |-> m, e |-> e]

DigitCount(m) == IF m < 10 THEN 1 ELSE 1 + DigitCount(m \div 10)

NotANumber == [nan |-> TRUE, inf |-> FALSE, m |-> 0, e |-> 0]
Infinite == [nan |-> FALSE, inf |-> TRUE, m |-> 0, e |-> 0]

\* the largest decimal exponent of a finite double (1.7976931348623157e308)
MaxExponent == 308

\* the double of m * 10^e: beyond the largest double it is Infinity
Double(negative, number) ==
    IF number.m # 0 /\ DigitCount(number.m) + number.e - 1 > MaxExponent THEN Infinite
    ELSE IF negative THEN [number EXCEPT !.m = 0 - number.m]
    ELSE number

IsDigit(c) == IsHexDigit(c) /\ HexValue(c) < 10

RECURSIVE DigitRun(_, _), DigitsValue(_, _, _), RadixRun(_, _, _, _), TrimEnd(_, _)
\* the place after the decimal digits that start at i
DigitRun(chars, i) ==
    IF i <= Len(chars) /\ IsDigit(chars[i]) THEN DigitRun(chars, i + 1) ELSE i

DigitsValue(chars, i, n) ==
    IF i > Len(chars) THEN n ELSE DigitsValue(chars, i + 1, 10 * n + HexValue(chars[i]))

\* Number(string), the exponent part: digits x..k-1 must end the text
NumberExponent(chars, mantissa, fraction, x, k) ==
    IF k = x \/ k <= Len(chars) THEN NotANumber
    ELSE Double(chars[1] = "-",
                Normal(mantissa,
                       (IF chars[x - 1] = "-" THEN 0 - DigitsValue(SubSeq(chars, x, k - 1), 1, 0)
                        ELSE DigitsValue(SubSeq(chars, x, k - 1), 1, 0)) - fraction))

\* Number(string), after the mantissa (its digits read as an integer, fraction
\* of them behind the point): the end of the text or an exponent part
NumberRest(chars, mantissa, fraction, j) ==
    IF j > Len(chars) THEN Double(chars[1] = "-", Normal(mantissa, 0 - fraction))
    ELSE IF chars[j] \in {"e", "E"}
    THEN NumberExponent(chars, mantissa, fraction, AfterSign(chars, j + 1),
                        DigitRun(chars, AfterSign(chars, j + 1)))
    ELSE NotANumber

\* Number(string), a decimal literal: digits s..i-1, then `.` and digits i+1..j-1
NumberFraction(chars, s, i, j) ==
    IF i = s /\ j = i + 1 THEN NotANumber
    ELSE NumberRest(chars,
                    DigitsValue(SubSeq(chars, s, i - 1) \o SubSeq(chars, i + 1, j - 1), 1, 0),
                    j - (i + 1), j)

NumberDecimal(chars, s, i) ==
    IF i <= Len(chars) /\ chars[i] = "." THEN NumberFraction(chars, s, i, DigitRun(chars, i + 1))
    ELSE IF i = s THEN NotANumber
    ELSE NumberRest(chars, DigitsValue(SubSeq(chars, s, i - 1), 1, 0), 0, i)

\* Number(string), `0x`, `0o` and `0b` literals: digits of the radix to the end
RadixRun(chars, i, radix, n) ==
    IF i > Len(chars) THEN (IF i = 3 THEN NotANumber ELSE Normal(n, 0))
    ELSE IF IsHexDigit(chars[i]) /\ HexValue(chars[i]) < radix
    THEN RadixRun(chars, i + 1, radix, radix * n + HexValue(chars[i]))
    ELSE NotANumber

Radix(c) == IF c \in {"x", "X"} THEN 16 ELSE IF c \in {"o", "O"} THEN 8 ELSE 2

\* Number(string) of a text without white space around it
StringToNumber(chars) ==
    IF chars = <<>> THEN Normal(0, 0)
    ELSE IF SubSeq(chars, AfterSign(chars, 1), Len(chars))
            = <<"I", "n", "f", "i", "n", "i", "t", "y">> THEN Infinite
    ELSE IF Len(chars) >= 2 /\ chars[1] = "0" /\ chars[2] \in {"x", "X", "o", "O", "b", "B"}
    THEN RadixRun(chars, 3, Radix(chars[2]), 0)
    ELSE NumberDecimal(chars, AfterSign(chars, 1), DigitRun(chars, AfterSign(chars, 1)))

\* the last place of the text that holds no white space
TrimEnd(chars, i) ==
    IF i >= 1 /\ chars[i] \in {" ", "\t", "\n", "\r"} THEN TrimEnd(chars, i - 1) ELSE i

\* Number(string): white space around the literal is skipped
Number(chars) ==
    StringToNumber(SubSeq(chars, SkipWhiteSpace(chars, 1), TrimEnd(chars, Len(chars))))

\* input.replaceAll("_", "")
replaceAll(input) == SelectSeq(input, LAMBDA c : c # "_")

\* a number value: an integer as before, any other number as mantissa and exponent
NumberOf(number) ==
    IF number.e = 0 THEN Num(number.m)
    ELSE [t |-> "num", n |-> number.m, e |-> number.e]

\* validateAndParseNumber, after the conversion
ValidNumber(h, value) ==
    IF value.nan THEN Throw(h, "invalid number")
    ELSE IF value.inf THEN Throw(h, "infinity value not supported")
    ELSE Ok(h, NumberOf(value))

validateAndParseNumber(h, input) ==
    IF input # <<>> /\ (input[1] = "_" \/ input[Len(input)] = "_")
    THEN Throw(h, "cannot have leading or trailing underscores for number")
    ELSE IF \E i \in 1..(Len(input) - 1) : input[i] = "_" /\ input[i + 1] = "_"
    THEN Throw(h, "cannot have consecutive underscores for number")
    ELSE ValidNumber(h, Number(replaceAll(input)))

\* numberResolver; value is the tag's argument, a string being given by its text
numberResolver(h, value) ==
    IF value.t = "num" THEN Ok(h, value)
    ELSE IF value = Bool(TRUE) THEN Ok(h, Num(1))
    ELSE IF value = Bool(FALSE) \/ value = Null THEN Ok(h, Num(0))
    ELSE IF value.t = "str"
    THEN validateAndParseNumber(h, CharsOf(value.cps))
    ELSE Throw(h, "cannot convert value to number")

\* Parser.tagResolvers
TagResolvers == {"ref", "number"}

\* the resolver of a tag is called with the tag's argument
CallTagResolver(name, h, value) ==
    IF name = "ref" THEN refResolver(h, value) ELSE numberResolver(h, value)

\* parseTag, after the resolver: KeyPath and Tag values are serialized
SerializeTagValue(h, value) ==
    IF value.t = "keypath" THEN Ok(h, Str(serialize(value.parts)))
    ELSE IF InstanceOf(h, value, "KeyPath") THEN Ok(h, Str(serialize(h[value.p].o.parts.ps)))
    ELSE IF InstanceOf(h, value, "Tag")
    THEN Ok(Append(h, ArrCell(<<h[value.p].o.name, h[value.p].o.arg>>)), Ptr(Len(h) + 1))
    ELSE Ok(h, value)

\* parseTag: `return new Tag(name, value)` or, with a resolver, the resolved value
TagValue(name, value) ==
    IF name \in TagResolvers THEN value
    ELSE Ok(Append(value.h, ObjCell("Tag", [name |-> Str(name), arg |-> value.v])),
            Ptr(Len(value.h) + 1))

\* parseTag: what the resolver returned (or threw)
TagResolved(name, resolved) ==
    IF ~resolved.ok THEN resolved
    ELSE TagValue(name, SerializeTagValue(resolved.h, resolved.v))

\* parseTag: the argument is parsed, the resolver of the tag (if any) is called
TagArgument(name, arg) ==
    IF ~arg.ok THEN arg
    ELSE IF name \in TagResolvers THEN TagResolved(name, CallTagResolver(name, arg.h, arg.v))
    ELSE TagResolved(name, arg)

RECURSIVE parseValue(_, _)
parseTag(h, e) ==
    IF e.arg.e = "ident"
    THEN TagArgument(e.name, Ok(h, [t |-> "keypath", parts |-> e.arg.path]))
    ELSE TagArgument(e.name, parseValue(h, e.arg))

\* The tokens of a string between its quotes: text, and `${` with the value
\* that follows it; closed tells whether the text has a `}` after that value.
Content(s) == [k |-> "STRING_CONTENT", s |-> s]
Embedded(inner, closed) == [k |-> "EMBEDDED_VALUE_START", inner |-> inner, closed |-> closed]
StrExpr(parts) == [e |-> "string", parts |-> parts]

\* `${` as the last token of the text: the token after it is EOF, without literal
EndOfText == [e |-> "eof"]

\* Lexer.readToken: the type of the token after an embedded value, `}` or the
\* quote that follows when the brace is missing
TokenAfter(closed) == IF closed THEN "RBRACE" ELSE "DOUBLE_QUOTE"

\* String(value) and `resolved += value`: the text of a value
RECURSIVE join(_, _, _)
String(h, v) ==
    IF v.t = "str" THEN v.s
    ELSE IF v.t = "num" THEN ToString(v.n)
    ELSE IF v.t = "bool" THEN (IF v.b THEN "true" ELSE "false")
    ELSE IF v.t = "null" THEN "null"
    ELSE IF v.t = "undefined" THEN "undefined"
    ELSE IF v.t = "keypath" THEN serialize(v.parts)
    ELSE IF h[v.p].t = "arr" THEN join(h, h[v.p].a, 1)
    ELSE "[object Object]"

\* Array.prototype.join(","): null and undefined elements give no text
join(h, a, i) ==
    IF i > Len(a) THEN ""
    ELSE (IF i > 1 THEN "," ELSE "")
         \o (IF a[i].t \in {"null", "undefined"} THEN "" ELSE String(h, a[i]))
         \o join(h, a, i + 1)

\* parseEmbeddedValue, after the switch: current is the type of this.currToken
EmbeddedEnd(value, current) ==
    IF ~value.ok THEN value
    ELSE IF current # "EMBEDDED_VALUE_END"
    THEN Throw(value.h, "Expected closing brace '}' for embedded value")
    ELSE value

\* parseEmbeddedValue, case VARIABLE: `value = variable.value`
EmbeddedVariable(h, variable) ==
    IF variable = Undef THEN Throw(h, "Could not resolve variable for name")
    ELSE Ok(h, variable)

\* parseEmbeddedValue, case IDENTIFIER with isTag(): `value = String(parsed)`
EmbeddedTag(parsed) ==
    IF ~parsed.ok THEN parsed
    ELSE IF InstanceOf(parsed.h, parsed.v, "Tag")
    THEN Throw(parsed.h, "Cannot have unresolved tag in embedded value")
    ELSE Ok(parsed.h, Str(String(parsed.h, parsed.v)))

\* parseEmbeddedValue, cases NULL and BOOLEAN: the literal is taken and the
\* parser does not advance, the current token is still the literal
EmbeddedLiteral(h, v) ==
    EmbeddedEnd(Ok(h, Str(String(h, v))), IF v.t = "null" THEN "NULL" ELSE "BOOLEAN")

RECURSIVE parseString(_, _)
parseEmbeddedValue(h, part) ==
    IF part.inner.e = "eof" THEN Throw(h, "Unexpected empty literal")
    ELSE IF part.inner.e = "string"
    THEN EmbeddedEnd(parseString(h, part.inner), TokenAfter(part.closed))
    ELSE IF part.inner.e = "var"
    THEN EmbeddedEnd(EmbeddedVariable(h, ScopeResolve(h, part.inner.path)),
                     TokenAfter(part.closed))
    ELSE IF part.inner.e = "tag"
    THEN EmbeddedEnd(EmbeddedTag(parseTag(h, part.inner)), TokenAfter(part.closed))
    ELSE IF part.inner.e = "lit" /\ part.inner.v.t = "num"
    THEN EmbeddedEnd(Ok(h, Str(String(h, part.inner.v))), TokenAfter(part.closed))
    ELSE IF part.inner.e = "lit" /\ part.inner.v.t \in {"null", "bool"}
    THEN EmbeddedLiteral(h, part.inner.v)
    ELSE Throw(h, "unexpected token in embedded value")

\* parseString, the loop over the tokens up to the closing quote
RECURSIVE StringFrom(_, _, _, _)
StringNext(value, parts, i, resolved) ==
    IF ~value.ok THEN value
    ELSE StringFrom(value.h, parts, i + 1, resolved \o String(value.h, value.v))

StringFrom(h, parts, i, resolved) ==
    IF i > Len(parts) THEN Ok(h, Str(resolved))
    ELSE IF parts[i].k = "STRING_CONTENT"
    THEN StringFrom(h, parts, i + 1, resolved \o parts[i].s)
    ELSE IF parts[i].k = "EMBEDDED_VALUE_START"
    THEN StringNext(parseEmbeddedValue(h, parts[i]), parts, i, resolved)
    ELSE Throw(h, "Unexpected token in string")

parseString(h, e) == StringFrom(h, e.parts, 1, "")

\* A string given by the characters of the text after its opening quote; its
\* value is the sequence of its code points.
TextExpr(chars) == [e |-> "text", chars |-> chars]
CodePoints(cps) == [t |-> "str", cps |-> cps]

UNICODE_SHORT_ESCAPE_LENGTH == 4
UNICODE_LONG_ESCAPE_LENGTH == 8

\* Lexer.readEscapeSequence: how many characters the token takes when the text
\* is long enough; position is the place of the backslash
charsToAdvance(input, position) ==
    IF position + 1 > Len(input) THEN 2
    ELSE IF input[position + 1] = "u" THEN 2 + UNICODE_SHORT_ESCAPE_LENGTH
    ELSE IF input[position + 1] = "U" THEN 2 + UNICODE_LONG_ESCAPE_LENGTH
    ELSE 2

\* Lexer.readEscapeSequence: the literal of the ESCAPE_SEQUENCE token; when the
\* text is too short the token takes what is left of it
readEscapeSequence(input, position) ==
    IF position - 1 + charsToAdvance(input, position) > Len(input)
    THEN SubSeq(input, position, Len(input))
    ELSE SubSeq(input, position, position - 1 + charsToAdvance(input, position))

MaxCodePoint == 1114111

\* String.fromCodePoint inside try/catch: a RangeError becomes an Error
fromCodePoint(h, codePoint) ==
    IF codePoint.nan THEN Throw(h, "Invalid unicode code point in escape sequence")
    ELSE IF codePoint.n < 0 \/ codePoint.n > MaxCodePoint
    THEN Throw(h, "Invalid unicode code point")
    ELSE Ok(h, codePoint.n)

\* parseEscapedValue: the code point an ESCAPE_SEQUENCE token stands for
parseEscapedValue(h, literal) ==
    IF Len(literal) < 2 THEN Throw(h, "Invalid escape sequence")
    ELSE IF literal[2] = "\"" THEN Ok(h, 34)
    ELSE IF literal[2] = "\\" THEN Ok(h, 92)
    ELSE IF literal[2] = "$" THEN Ok(h, 36)
    ELSE IF literal[2] = "b" THEN Ok(h, 8)
    ELSE IF literal[2] = "f" THEN Ok(h, 12)
    ELSE IF literal[2] = "n" THEN Ok(h, 10)
    ELSE IF literal[2] = "r" THEN Ok(h, 13)
    ELSE IF literal[2] = "t" THEN Ok(h, 9)
    ELSE IF literal[2] \in {"u", "U"}
    THEN fromCodePoint(h, parseInt16(SubSeq(literal, 3, Len(literal))))
    ELSE Throw(h, "Invalid escape sequence")

\* parseString over the tokens the lexer makes of the characters: an escape
\* sequence, string content up to the next quote, the closing quote, or the
\* end of the input
RECURSIVE StringChars(_, _, _, _)
StringEscape(decoded, chars, position, literal, resolved) ==
    IF ~decoded.ok THEN decoded
    ELSE StringChars(decoded.h, chars, position + Len(literal), Append(resolved, decoded.v))

StringChars(h, chars, position, resolved) ==
    IF position > Len(chars) THEN Throw(h, "Unexpected token in string")
    ELSE IF chars[position] = "\"" THEN Ok(h, CodePoints(resolved))
    ELSE IF chars[position] = "\\"
    THEN StringEscape(parseEscapedValue(h, readEscapeSequence(chars, position)), chars,
                      position, readEscapeSequence(chars, position), resolved)
    ELSE StringChars(h, chars, position + 1, Append(resolved, CodePointAt(chars[position])))

\* parseValue, a variable: `if (variable === undefined) throw`
VariableValue(h, variable) ==
    IF variable = Undef THEN Throw(h, "Could not find variable with name")
    ELSE Ok(h, variable)

parseValue(h, e) ==
    IF e.e = "lit" THEN Ok(h, e.v)
    ELSE IF e.e = "array" THEN Ok(Append(h, ArrCell(e.elems)), Ptr(Len(h) + 1))
    ELSE IF e.e = "var" THEN VariableValue(h, ScopeResolve(h, e.path))
    ELSE IF e.e = "tag" THEN parseTag(h, e)
    ELSE IF e.e = "string" THEN parseString(h, e)
    ELSE IF e.e = "text" THEN StringChars(h, e.chars, 1, <<>>)
    ELSE Throw(h, "Unexpected identifier in value position.")

\* what Parser.statementResolvers and the loader do for a statement line
NoResolver == [resolver |-> "none"]
UserReturns(action, value) == [resolver |-> "user", action |-> action, value |-> value]
UserThrows(message) == [resolver |-> "throws", message |-> message]
Extends(file) == [resolver |-> "extends", file |-> file]

\* the loader throws: there is no such file
Unreadable == [t |-> "unreadable"]

\* the options of a parse: the user's tag and statement resolvers by name
Options(tags, statements) == [tags |-> tags, statements |-> statements]
NoOptions == Options([n \in {} |-> NoResolver], [n \in {} |-> NoResolver])

\* resolvers.js: BUILT_IN_TAG_RESOLVERS and BUILT_IN_STATEMENT_RESOLVERS as the module
\* creates them
BuiltIn ==
    [tags |-> [n \in {"ref", "env", "string", "number", "int", "float", "bool"} |->
                 [resolver |-> "built-in", name |-> n]],
     statements |-> [n \in {"import", "export", "extends"} |-> [resolver |-> n]]]

\* `for (const r of list) table.set(r.name, r.resolver)`
SetAll(table, entries) ==
    [n \in DOMAIN table \cup DOMAIN entries |->
        IF n \in DOMAIN entries THEN entries[n] ELSE table[n]]

\* a constructor that registers the user's resolvers in the built-in Maps themselves
ConstructShared(tables, opts) ==
    [resolvers |-> [tags |-> SetAll(tables.tags, opts.tags),
                    statements |-> SetAll(tables.statements, opts.statements)],
     builtIn |-> [tags |-> SetAll(tables.tags, opts.tags),
                  statements |-> SetAll(tables.statements, opts.statements)]]

\* Parser: `new Map(BUILT_IN_...)` of the field initialisers, then the constructor's
\* tagResolvers.set and statementResolvers.set; tables are the built-in Maps
Construct(tables, opts) ==
    [resolvers |-> [tags |-> SetAll(tables.tags, opts.tags),
                    statements |-> SetAll(tables.statements, opts.statements)],
     builtIn |-> tables]

(***************************************************************************)
(* The parser as a state machine.                                          *)
(***************************************************************************)
\* the fields of a Lexer after its constructor
Frame(mode, stringType) == [mode |-> mode, stringType |-> stringType]

NewLexer(input) ==
    [input |-> input, position |-> 0, column |-> 1, row |-> 1,
     contextStack |-> <<Frame("DEFAULT", "OFF")>>, lastToken |-> "null", tokens |-> <<>>,
     pre |-> [position |-> 0, column |-> 1, row |-> 1, contextStack |-> <<>>,
              lastToken |-> "null"]]

\* the parser after its constructor
InitParser ==
    /\ heap = <<ObjCell("Object", EmptyMap), ObjCell("Object", EmptyMap)>>
    /\ result = 1
    /\ scopes = <<2>>
    /\ blocks = <<>>
    /\ status = "parsing"
    /\ err = Undef
    /\ out = Undef
    /\ exportedVariables = EmptyMap
    /\ options = NoOptions
    /\ resolvers = Construct(BuiltIn, NoOptions).resolvers
    /\ builtIn = Construct(BuiltIn, NoOptions).builtIn
    /\ parses = 1
    /\ lines = 0
    /\ history = <<>>
    /\ last = [op |-> "none"]

\* no parse over tokens is under way
NoRun == [state |-> "none"]

Init == InitParser /\ lexer = NewLexer(<<>>) /\ run = NoRun

\* new Error(message): the parser throws plain errors
Error(message) == [name |-> "Error", message |-> message]

\* the root parameter of the running parseBlock
BlockRoot == IF blocks = <<>> THEN result ELSE blocks[Len(blocks)].obj

IsVariableKey(key) == key[1].type = "variable"

\* rootToUse of parseBlock (assignVarsToRoot is false)
rootToUse(key) == IF IsVariableKey(key) THEN CurrentVariables ELSE BlockRoot

\* lastKey.index ?? lastKey.key
keyToUse(key) ==
    LET lastKey == key[Len(key)]
    IN IF lastKey.index # NoIndex THEN IdxKey(lastKey.index) ELSE StrKey(lastKey.key)

\* history: one more line of the source text
Line(op, key, e) ==
    Append(history, [op |-> op, key |-> key, e |-> e, depth |-> Len(blocks)])

CanParseLine == status = "parsing"

\* parseBlock, after getParentForKey and parseValue: `parent[keyToUse] = value`
AssignValue(key, operator, e, parent, value) ==
    /\ heap' = IF value.ok THEN SetProp(value.h, parent.c, keyToUse(key), value.v)
               ELSE value.h
    /\ status' = IF value.ok THEN status ELSE "failed"
    /\ err' = IF value.ok THEN err ELSE Error(value.msg)
    /\ last' = [op |-> "assign", key |-> key, operator |-> operator, e |-> e,
                ok |-> value.ok, v |-> value.v, depth |-> Len(blocks),
                root |-> rootToUse(key), parent |-> parent.c,
                pre |-> heap, mid |-> value.h]

\* parseBlock, operator "assign" (with a value that is no object) or "true-shorthand"
AssignLine(key, operator, e) ==
    /\ CanParseLine
    /\ \E parent \in {getParentForKey(heap, rootToUse(key), key)} :
         IF operator = "true-shorthand"
         THEN AssignValue(key, operator, e, parent, Ok(parent.h, Bool(TRUE)))
         ELSE AssignValue(key, operator, e, parent, parseValue(parent.h, e))
    /\ lines' = lines + 1
    /\ history' = Line(operator, key, e)
    /\ UNCHANGED <<result, scopes, blocks, out, exportedVariables, setup>>

\* an append that always starts a new array
EnsureArrayFresh(h, parent, slot, existing) ==
    [h |-> SetProp(Append(h, ArrCell(<<>>)), parent, slot, Ptr(Len(h) + 1)),
     c |-> Len(h) + 1, before |-> <<>>]

\* operator "append": `if (!Array.isArray(parent[keyToUse])) parent[keyToUse] = []`
EnsureArray(h, parent, slot, existing) ==
    IF IsArray(h, existing) THEN [h |-> h, c |-> existing.p, before |-> h[existing.p].a]
    ELSE [h |-> SetProp(Append(h, ArrCell(<<>>)), parent, slot, Ptr(Len(h) + 1)),
          c |-> Len(h) + 1, before |-> <<>>]

\* operator "append": `parent[keyToUse].push(value)`
AppendValue(key, e, parent, existing, target, value) ==
    /\ heap' = IF value.ok THEN Push(value.h, target.c, value.v) ELSE value.h
    /\ status' = IF value.ok THEN status ELSE "failed"
    /\ err' = IF value.ok THEN err ELSE Error(value.msg)
    /\ last' = [op |-> "append", key |-> key, e |-> e, ok |-> value.ok,
                v |-> value.v, depth |-> Len(blocks),
                root |-> rootToUse(key), parent |-> parent.c,
                existing |-> existing, target |-> target.c, before |-> target.before,
                pre |-> heap, mid |-> value.h]

\* parseBlock, operator "append" with a value that is no object
AppendLine(key, e) ==
    /\ CanParseLine
    /\ \E parent \in {getParentForKey(heap, rootToUse(key), key)} :
       \E existing \in {GetProp(parent.h, parent.c, keyToUse(key))} :
       \E target \in {EnsureArray(parent.h, parent.c, keyToUse(key), existing)} :
         AppendValue(key, e, parent, existing, target, parseValue(target.h, e))
    /\ lines' = lines + 1
    /\ history' = Line("append", key, e)
    /\ UNCHANGED <<result, scopes, blocks, out, exportedVariables, setup>>

\* parseObject creates the object, parseBlock enters a new Scope
EnterObject(key, operator, parent, target) ==
    /\ heap' = target.h \o <<ObjCell("Object", EmptyMap), ObjCell("Object", EmptyMap)>>
    /\ blocks' = Append(blocks, [obj |-> Len(target.h) + 1, parent |-> parent.c,
                                 slot |-> keyToUse(key), operator |-> operator,
                                 target |-> target.c, key |-> key])
    /\ scopes' = Append(scopes, Len(target.h) + 2)
    /\ last' = [op |-> "open", key |-> key, operator |-> operator, depth |-> Len(blocks)]

\* parseBlock reaching `{` as the value of "assign", "object-shorthand" or "append"
OpenObject(key, operator) ==
    /\ CanParseLine
    /\ Len(blocks) < MaxDepth
    /\ \E parent \in {getParentForKey(heap, rootToUse(key), key)} :
         IF operator = "append"
         THEN EnterObject(key, operator, parent,
                          EnsureArray(parent.h, parent.c, keyToUse(key),
                                      GetProp(parent.h, parent.c, keyToUse(key))))
         ELSE EnterObject(key, operator, parent, [h |-> parent.h, c |-> 0])
    /\ lines' = lines + 1
    /\ history' = Line("open", key, [e |-> "object", operator |-> operator])
    /\ UNCHANGED <<result, status, err, out, exportedVariables, setup>>

\* parseBlock reaching `}`: the scope is left, parseObject returns the object and the
\* suspended line stores it
CloseObject ==
    /\ status = "parsing"
    /\ blocks # <<>>
    /\ LET frame == blocks[Len(blocks)]
       IN  /\ heap' = IF frame.operator = "append"
                      THEN Push(heap, frame.target, Ptr(frame.obj))
                      ELSE SetProp(heap, frame.parent, frame.slot, Ptr(frame.obj))
           /\ last' = [op |-> "close", key |-> frame.key, operator |-> frame.operator,
                       depth |-> Len(blocks) - 1]
    /\ blocks' = SubSeq(blocks, 1, Len(blocks) - 1)
    /\ scopes' = SubSeq(scopes, 1, Len(scopes) - 1)
    /\ history' = Line("close", blocks[Len(blocks)].key, [e |-> "object"])
    /\ UNCHANGED <<result, status, err, out, exportedVariables, lines, setup>>

\* EOF: inside an object the closing brace is missing; at the root Parser.parse
\* unwraps the result (a cyclic result overflows the stack)
EndOfInput ==
    /\ status = "parsing"
    /\ IF blocks # <<>>
       THEN /\ status' = "failed"
            /\ err' = Error("Expected closing brace '}' for object")
            /\ out' = out
       ELSE IF OnCycle(heap, Ptr(result), {})
       THEN /\ status' = "failed"
            /\ err' = [name |-> "RangeError", message |-> "Maximum call stack size exceeded"]
            /\ out' = out
       ELSE /\ status' = "done"
            /\ err' = err
            /\ out' = unwrap(heap, Ptr(result))
    /\ last' = [op |-> "eof"]
    /\ UNCHANGED <<heap, result, scopes, blocks, lines, history, exportedVariables, setup>>

\* JavaScript truthiness: if (value)
Truthy(v) ==
    IF IsPtr(v) THEN TRUE
    ELSE IF v.t = "bool" THEN v.b
    ELSE IF v.t = "num" THEN v.n # 0
    ELSE IF v.t = "str" THEN v.s # ""
    ELSE FALSE

\* Builds on the heap a tree that a resolver or a nested parse hands to the parser.
RECURSIVE AllocTree(_, _), AllocSeq(_, _, _, _), AllocMap(_, _, _, _)
AllocArray(r) == [h |-> Append(r.h, ArrCell(r.vs)), v |-> Ptr(Len(r.h) + 1)]

AllocObject(r) == [h |-> Append(r.h, ObjCell("Object", r.o)), v |-> Ptr(Len(r.h) + 1)]

AllocTree(h, tree) ==
    IF tree.t = "array" THEN AllocArray(AllocSeq(h, tree.a, 1, <<>>))
    ELSE IF tree.t = "object" THEN AllocObject(AllocMap(h, tree.o, DOMAIN tree.o, EmptyMap))
    ELSE [h |-> h, v |-> tree]

AllocElem(r, a, i, acc) == AllocSeq(r.h, a, i + 1, Append(acc, r.v))

AllocSeq(h, a, i, acc) ==
    IF i > Len(a) THEN [h |-> h, vs |-> acc]
    ELSE AllocElem(AllocTree(h, a[i]), a, i, acc)

AllocField(r, o, ks, k, acc) == AllocMap(r.h, o, ks \ {k}, MapSet(acc, k, r.v))

AllocMap(h, o, ks, acc) ==
    IF ks = {} THEN [h |-> h, o |-> acc]
    ELSE AllocField(AllocTree(h, o[NextKey(ks)]), o, ks, NextKey(ks), acc)

\* parseStatementArgs: the values up to the end of the line
RECURSIVE StatementArgsFrom(_, _, _, _)
StatementArg(parsed, exprs, i, values) ==
    IF ~parsed.ok THEN parsed
    ELSE StatementArgsFrom(parsed.h, exprs, i + 1, Append(values, parsed.v))

\* parseValue with strictIdents: a bare identifier reads as a string
parseStrictIdentifier(h, e) ==
    IF Len(e.path) > 1 \/ e.path[1].index # NoIndex
    THEN Throw(h, "Dotted keys are not allowed in this context")
    ELSE Ok(h, Str(e.path[1].key))

StatementArgsFrom(h, exprs, i, values) ==
    IF i > Len(exprs) THEN Ok(Append(h, ArrCell(values)), Ptr(Len(h) + 1))
    ELSE IF exprs[i].e = "ident"
    THEN StatementArg(parseStrictIdentifier(h, exprs[i]), exprs, i, values)
    ELSE StatementArg(parseValue(h, exprs[i]), exprs, i, values)

parseStatementArgs(h, exprs) == StatementArgsFrom(h, exprs, 1, <<>>)

\* what a resolver returns: { action, value }, the value built on the heap
Returns(action, data) == Ok(data.h, [action |-> action, value |-> data.v])

\* resolveStatement without a built-in resolver: no resolver at all (the statement is
\* pushed), or the user's resolver, which returns an action or throws
UserResolved(h, args, world) ==
    IF world.resolver = "none" THEN Ok(h, [action |-> "push", value |-> args])
    ELSE IF world.resolver = "throws" THEN Throw(h, world.message)
    ELSE Returns(world.action, AllocTree(h, world.value))

\* new Statement(key, []) stored at the key, unless a Statement is there already
EnsureStatement(h, parent, slot, key) ==
    LET existing == GetProp(h, parent, slot)
        n == Len(h)
        h1 == h \o <<ObjCell("KeyPath", [parts |-> [t |-> "parts", ps |-> key]]),
                     ArrCell(<<>>),
                     ObjCell("Statement", [name |-> Ptr(n + 1), args |-> Ptr(n + 2)])>>
    IN  IF InstanceOf(h, existing, "Statement") THEN [h |-> h, c |-> existing.p]
        ELSE [h |-> SetProp(h1, parent, slot, Ptr(n + 3)), c |-> n + 3]

\* action "push": `if (resolved.value) parent[keyToUse].args.push(resolved.value)`
PushArgs(target, value) ==
    IF Truthy(value) THEN Ok(Push(target.h, target.h[target.c].o.args.p, value), Undef)
    ELSE Ok(target.h, Undef)

\* action "push": the Statement at the key
StatementAt(parent, key) == EnsureStatement(parent.h, parent.c, keyToUse(key), key)

(***************************************************************************)
(* Variables of the resolver context: getVariable and declareVariable.     *)
(* A parser is passed around as a record p of its heap, result, scope      *)
(* chain and exported variables, so that the enclosing parser and a nested *)
(* one run the same definitions.                                           *)
(***************************************************************************)
\* the characters of the names used in the model (a TLC string cannot be taken apart)
NameChars(name) ==
    CASE name = "$a" -> <<"$", "a">>
      [] name = "$b" -> <<"$", "b">>
      [] name = "$c" -> <<"$", "c">>
      [] name = "$a.b" -> <<"$", "a", ".", "b">>
      [] name = "$a[0]" -> <<"$", "a", "[", "0", "]">>
      [] name = "x" -> <<"x">>
      [] OTHER -> <<>>

\* String.prototype.startsWith with a one-character prefix
startsWith(name, c) == NameChars(name) # <<>> /\ NameChars(name)[1] = c

\* String.prototype.includes with a one-character needle
includes(name, c) == \E i \in 1..Len(NameChars(name)) : NameChars(name)[i] = c

\* the parser whose parseBlock is running
Here == [h |-> heap, result |-> result, scopes |-> scopes,
         exportedVariables |-> exportedVariables]

\* Scope.resolve along a scope chain, innermost scope first
RECURSIVE ResolveIn(_, _, _, _)
ResolveInStep(h, chain, parts, i, value) ==
    IF value # Undef THEN value ELSE ResolveIn(h, chain, parts, i - 1)

ResolveIn(h, chain, parts, i) ==
    IF i = 0 THEN Undef
    ELSE ResolveInStep(h, chain, parts, i, getValueAtPath(h, chain[i], parts))

\* context.getVariable(name); Undef stands for { found: false }
getVariable(p, name) == ResolveIn(p.h, p.scopes, <<VarPart(name)>>, Len(p.scopes))

\* the args of declareVariable
SetArgs(scope, override, export, exportOnly) ==
    [scope |-> scope, override |-> override, export |-> export, exportOnly |-> exportOnly]

NoArgs == SetArgs("current", FALSE, FALSE, FALSE)
ExportOnly == SetArgs("current", FALSE, TRUE, TRUE)

Declared(p, success) == [p |-> p, success |-> success]

\* Scope.define
define(p, scope, name, value) == [p EXCEPT !.h = SetProp(p.h, scope, StrKey(name), value)]

\* declareVariable, `if (args?.export)`
DeclareExport(p, name, value, args) ==
    IF ~args.export THEN Declared(p, TRUE)
    ELSE IF name \in DOMAIN p.exportedVariables /\ ~args.override THEN Declared(p, FALSE)
    ELSE Declared([p EXCEPT !.exportedVariables = MapSet(p.exportedVariables, name, value)],
                  TRUE)

\* context.declareVariable(name, value, args)
declareVariable(p, name, value, args) ==
    IF ~startsWith(name, "$") \/ includes(name, ".") \/ includes(name, "[")
         \/ includes(name, "]")
    THEN Declared(p, FALSE)
    ELSE IF args.exportOnly THEN DeclareExport(p, name, value, args)
    ELSE IF ~args.override /\ name \in DOMAIN p.h[p.scopes[Len(p.scopes)]].o
    THEN Declared(p, FALSE)
    ELSE IF args.scope = "root"
    THEN DeclareExport(define(p, p.scopes[1], name, value), name, value, args)
    ELSE DeclareExport(define(p, p.scopes[Len(p.scopes)], name, value), name, value, args)

(***************************************************************************)
(* resolvers.js: import and export.  The instructions object of a          *)
(* statement is a list of [name, instruction] entries in source order; an  *)
(* instruction is true, false, another value, a key path, an alias         *)
(* Statement or a Collection of these.                                     *)
(***************************************************************************)
Entry(name, instruction) == [name |-> name, instruction |-> instruction]
Entries(es) == [t |-> "entries", es |-> es]
KeyPathValue(parts) == [t |-> "keypath", parts |-> parts]
AliasStatement(args) == [t |-> "statement", args |-> args]
As(alias) == <<Str("as"), KeyPathValue(<<VarPart(alias)>>)>>
CollectionOf(collected) == [t |-> "collection", collected |-> collected]

\* how a resolver ends: it returned { action: "discard" } or it threw
Done(p) == [ok |-> TRUE, p |-> p, msg |-> ""]
Fail(p, msg) == [ok |-> FALSE, p |-> p, msg |-> msg]

\* `if (!success) throw`
Success(declared, msg) == IF declared.success THEN Done(declared.p) ELSE Fail(declared.p, msg)

\* template literal of a primitive value
Quote(v) ==
    IF v.t = "str" THEN v.s ELSE IF v.t = "num" THEN ToString(v.n)
    ELSE IF v.t = "bool" THEN (IF v.b THEN "true" ELSE "false") ELSE "[object Object]"

\* an import alias that overwrites a declared variable
ImportAliasOverride(p, name, pair, variables) ==
    IF pair[1] # Str("as")
    THEN Fail(p, "expected 'as' for alias statement, got '" \o Quote(pair[1]) \o "'")
    ELSE Success(declareVariable(p, pair[2].parts[1].key, variables[name],
                                 SetArgs("current", TRUE, FALSE, FALSE)),
                 "unexpectedly could not declare variable alias '[object Object]'")

\* handleImportInstruction: one [asArg, key] of an alias Statement
ImportAlias(p, name, pair, variables) ==
    IF pair[1] # Str("as")
    THEN Fail(p, "expected 'as' for alias statement, got '" \o Quote(pair[1]) \o "'")
    ELSE IF pair[2].t # "keypath"
    THEN Fail(p, "expected alias to be a key path, got '" \o pair[2].t \o "'")
    ELSE IF pair[2].parts[1].type # "variable"
    THEN Fail(p, "expected variable key, got " \o pair[2].parts[1].type)
    ELSE IF ~startsWith(pair[2].parts[1].key, "$")
    THEN Fail(p, "invalid alias name '" \o pair[2].parts[1].key
                 \o "', must follow variable syntax")
    ELSE IF getVariable(p, pair[2].parts[1].key) # Undef
    THEN Fail(p, "variable '" \o pair[2].parts[1].key
                 \o "' cannot be imported as it has already been declared")
    ELSE Success(declareVariable(p, pair[2].parts[1].key, variables[name], NoArgs),
                 "unexpectedly could not declare variable alias '[object Object]'")

RECURSIVE ImportAliases(_, _, _, _, _)
ImportAliasNext(done, name, args, i, variables) ==
    IF ~done.ok THEN done ELSE ImportAliases(done.p, name, args, i + 1, variables)

ImportAliases(p, name, args, i, variables) ==
    IF i > Len(args) THEN Done(p)
    ELSE ImportAliasNext(ImportAlias(p, name, args[i], variables), name, args, i, variables)

\* handleImportInstruction
handleImportInstruction(p, name, instruction, variables) ==
    IF instruction.t = "statement"
    THEN ImportAliases(p, name, instruction.args, 1, variables)
    ELSE Success(declareVariable(p, name, variables[name], NoArgs),
                 "unexpectedly could not declare variable '" \o name \o "'")

\* importResolver: `for (const value of instruction.collected)`
RECURSIVE ImportCollected(_, _, _, _, _)
ImportCollectedNext(done, name, collected, i, variables) ==
    IF ~done.ok THEN done ELSE ImportCollected(done.p, name, collected, i + 1, variables)

ImportCollected(p, name, collected, i, variables) ==
    IF i > Len(collected) THEN Done(p)
    ELSE ImportCollectedNext(handleImportInstruction(p, name, collected[i], variables),
                             name, collected, i, variables)

\* an import that never checks `name in variables`: a missing name reads as true
ImportEntryUnexported(p, entry, variables) ==
    IF ~startsWith(entry.name, "$") \/ entry.instruction = Bool(FALSE) THEN Done(p)
    ELSE handleImportInstruction(p, entry.name, entry.instruction,
                                 [n \in {"$a", "$b", "$c"} |->
                                     IF n \in DOMAIN variables THEN variables[n]
                                     ELSE Bool(TRUE)])

\* importResolver: one entry of `Object.entries(instructions.value)`
ImportEntry(p, entry, variables) ==
    IF ~startsWith(entry.name, "$") \/ entry.instruction = Bool(FALSE) THEN Done(p)
    ELSE IF entry.name \notin DOMAIN variables
    THEN Fail(p, "variable '" \o entry.name \o "' is not exported from '[object Object]'")
    ELSE IF entry.instruction.t = "collection"
    THEN ImportCollected(p, entry.name, entry.instruction.collected, 1, variables)
    ELSE handleImportInstruction(p, entry.name, entry.instruction, variables)

RECURSIVE ImportEntries(_, _, _, _)
ImportEntryNext(done, es, i, variables) ==
    IF ~done.ok THEN done ELSE ImportEntries(done.p, es, i + 1, variables)

ImportEntries(p, es, i, variables) ==
    IF i > Len(es) THEN Done(p)
    ELSE ImportEntryNext(ImportEntry(p, es[i], variables), es, i, variables)

\* `resolvedVariable.found ? resolvedVariable.value : true`
FoundOrTrue(resolvedVariable) == IF resolvedVariable # Undef THEN resolvedVariable ELSE Bool(TRUE)

\* handleExportInstruction: one [asArg, key] of an alias Statement
ExportAlias(p, name, pair) ==
    IF pair[1] # Str("as")
    THEN Fail(p, "expected 'as' for alias statement, got '" \o Quote(pair[1]) \o "'")
    ELSE IF pair[2].t # "keypath"
    THEN Fail(p, "expected alias to be a key path, got '" \o pair[2].t \o "'")
    ELSE IF pair[2].parts[1].type # "variable"
    THEN Fail(p, "expected variable key, got " \o pair[2].parts[1].type)
    ELSE IF ~startsWith(pair[2].parts[1].key, "$")
    THEN Fail(p, "invalid alias name '" \o pair[2].parts[1].key
                 \o "', must follow variable syntax")
    ELSE Success(declareVariable(p, pair[2].parts[1].key, FoundOrTrue(getVariable(p, name)),
                                 ExportOnly),
                 "unexpectedly could not export variable '" \o pair[2].parts[1].key \o "'")

RECURSIVE ExportAliases(_, _, _, _)
ExportAliasNext(done, name, args, i) ==
    IF ~done.ok THEN done ELSE ExportAliases(done.p, name, args, i + 1)

ExportAliases(p, name, args, i) ==
    IF i > Len(args) THEN Done(p)
    ELSE ExportAliasNext(ExportAlias(p, name, args[i]), name, args, i)

\* an export that also declares the variable in the current scope
handleExportInstructionInScope(p, name, instruction) ==
    IF instruction.t = "statement" THEN ExportAliases(p, name, instruction.args, 1)
    ELSE Success(declareVariable(p, name, FoundOrTrue(getVariable(p, name)),
                                 SetArgs("current", TRUE, TRUE, FALSE)),
                 "unexpectedly could not export variable '" \o name \o "'")

\* handleExportInstruction
handleExportInstruction(p, name, instruction) ==
    IF instruction.t = "statement" THEN ExportAliases(p, name, instruction.args, 1)
    ELSE IF instruction.t = "keypath"
    THEN Success(declareVariable(p, name,
                                 FoundOrTrue(ResolveIn(p.h, p.scopes, instruction.parts,
                                                       Len(p.scopes))),
                                 ExportOnly),
                 "unexpectedly could not export variable '" \o name \o "'")
    ELSE Success(declareVariable(p, name, FoundOrTrue(getVariable(p, name)), ExportOnly),
                 "unexpectedly could not export variable '" \o name \o "'")

\* exportResolver: `for (const value of instruction.collected)`
RECURSIVE ExportCollected(_, _, _, _)
ExportCollectedNext(done, name, collected, i) ==
    IF ~done.ok THEN done ELSE ExportCollected(done.p, name, collected, i + 1)

ExportCollected(p, name, collected, i) ==
    IF i > Len(collected) THEN Done(p)
    ELSE ExportCollectedNext(handleExportInstruction(p, name, collected[i]),
                             name, collected, i)

\* exportResolver: one entry of `Object.entries(variables.value)`
ExportEntry(p, entry) ==
    IF ~startsWith(entry.name, "$") THEN Done(p)
    ELSE IF entry.instruction.t = "collection"
    THEN ExportCollected(p, entry.name, entry.instruction.collected, 1)
    ELSE handleExportInstruction(p, entry.name, entry.instruction)

RECURSIVE ExportEntries(_, _, _)
ExportEntryNext(done, es, i) == IF ~done.ok THEN done ELSE ExportEntries(done.p, es, i + 1)

ExportEntries(p, es, i) ==
    IF i > Len(es) THEN Done(p)
    ELSE ExportEntryNext(ExportEntry(p, es[i]), es, i)

\* exportResolver; args are the values context.next() hands out
exportResolver(p, args) ==
    IF Len(args) < 1
    THEN Fail(p, "expected 'vars' to be the second argument in export statements but got nothing")
    ELSE IF args[1] # Str("vars")
    THEN Fail(p, "expected 'vars' to be the second argument in export statements but got '"
                 \o Quote(args[1]) \o "'")
    ELSE IF Len(args) < 2 THEN Fail(p, "expected object with variables to export")
    ELSE IF args[2].t # "entries" THEN Fail(p, "expected object with variables to export")
    ELSE ExportEntries(p, args[2].es, 1)

(***************************************************************************)
(* A nested parse: context.parse(input) of resolveStatement.  A text is a  *)
(* list of top-level lines: assignments and statements (the texts of the   *)
(* model hold no object block, no import and no extends).                  *)
(***************************************************************************)
Text(ls) == [t |-> "text", lines |-> ls]
AssignText(key, e) == [op |-> "assign", key |-> key, e |-> e]
StatementText(key, args) == [op |-> "statement", key |-> key, args |-> args]

\* a nested parser that works on the result and the root scope of the first parser
NewParserShared(h) ==
    [h |-> h, result |-> 1, scopes |-> <<2>>, exportedVariables |-> EmptyMap]

\* the fields of a Parser after its constructor
NewParser(h) ==
    [h |-> h \o <<ObjCell("Object", EmptyMap), ObjCell("Object", EmptyMap)>>,
     result |-> Len(h) + 1, scopes |-> <<Len(h) + 2>>, exportedVariables |-> EmptyMap]

\* parseValue in the parser p: variables and ref() read p's scopes and p's result
TextValue(p, h, e) ==
    IF e.e = "var" THEN VariableValue(h, ResolveIn(h, p.scopes, e.path, Len(p.scopes)))
    ELSE IF e.e = "tag" /\ e.name = "ref" /\ e.arg.e = "ident"
    THEN RefResolved(h, e.arg.path, getValueAtPath(h, p.result, e.arg.path))
    ELSE parseValue(h, e)

\* parseBlock of p, operator "assign": `parent[keyToUse] = value`
TextAssigned(p, key, parent, value) ==
    IF value.ok
    THEN Done([p EXCEPT !.h = SetProp(value.h, parent.c, keyToUse(key), value.v)])
    ELSE Fail([p EXCEPT !.h = value.h], value.msg)

TextAssign(p, line, parent) ==
    TextAssigned(p, line.key, parent, TextValue(p, parent.h, line.e))

\* parseBlock of p, operator "statement": the action of the resolver is carried out
TextApplied(p, applied) ==
    IF applied.ok THEN Done([p EXCEPT !.h = applied.h])
    ELSE Fail([p EXCEPT !.h = applied.h], applied.msg)

TextApply(p, h, key, resolved) ==
    IF resolved.action = "push"
    THEN TextApplied(p, PushArgs(StatementAt(getParentForKey(h, p.result, key), key),
                                 resolved.value))
    ELSE IF resolved.action = "merge"
    THEN IF ~isObject(h, resolved.value)
         THEN Fail([p EXCEPT !.h = h], "Cannot merge non object values into current document")
         ELSE Done([p EXCEPT !.h = deepMerge(h, p.result, resolved.value.p)])
    ELSE Done([p EXCEPT !.h = h])

TextResolved(p, key, resolved) ==
    IF resolved.ok THEN TextApply(p, resolved.h, key, resolved.v)
    ELSE Fail([p EXCEPT !.h = resolved.h], resolved.msg)

\* resolveStatement of p: `this.statementResolvers.get(key.parts[0].key)`
TextStatement(p, line, opts) ==
    IF line.key[1].key \in DOMAIN opts.statements
    THEN TextResolved(p, line.key,
                      UserResolved(Append(p.h, ArrCell(line.args)), Ptr(Len(p.h) + 1),
                                   opts.statements[line.key[1].key]))
    ELSE IF line.key[1].key = "export" THEN exportResolver(p, line.args)
    ELSE TextResolved(p, line.key,
                      UserResolved(Append(p.h, ArrCell(line.args)), Ptr(Len(p.h) + 1),
                                   NoResolver))

\* one iteration of parseBlock at the root of p
TextLine(p, line, opts) ==
    IF line.op = "assign"
    THEN TextAssign(p, line,
                    getParentForKey(p.h, IF IsVariableKey(line.key)
                                         THEN p.scopes[Len(p.scopes)] ELSE p.result,
                                    line.key))
    ELSE TextStatement(p, line, opts)

\* what context.parse resolves with (or its rejection)
Parsed(p) ==
    [ok |-> TRUE, h |-> p.h, data |-> Ptr(p.result), variables |-> p.exportedVariables,
     scopes |-> p.scopes, msg |-> ""]
Rejected(h, msg) ==
    [ok |-> FALSE, h |-> h, data |-> Undef, variables |-> EmptyMap, scopes |-> <<>>,
     msg |-> msg]

\* Parser.parse: parseBlock to the end of the input, then unwrap(this.result)
RECURSIVE ParseFrom(_, _, _, _)
ParseNext(done, ls, i, opts) ==
    IF ~done.ok THEN Rejected(done.p.h, done.msg) ELSE ParseFrom(done.p, ls, i + 1, opts)

ParseFrom(p, ls, i, opts) ==
    IF i > Len(ls)
    THEN IF OnCycle(p.h, Ptr(p.result), {})
         THEN Rejected(p.h, "Maximum call stack size exceeded")
         ELSE Parsed(p)
    ELSE ParseNext(TextLine(p, ls[i], opts), ls, i, opts)

\* new Parser(input, opts) and parser.parse()
ParseText(h, input, opts) == ParseFrom(NewParser(h), input.lines, 1, opts)

\* context.parse: `new Parser(input)`
contextParse(h, input) == ParseText(h, input, NoOptions)

\* importResolver, after context.parse
ImportParsed(p, args, parsed) ==
    IF ~parsed.ok THEN Fail([p EXCEPT !.h = parsed.h], parsed.msg)
    ELSE IF Len(args) < 3
    THEN Fail([p EXCEPT !.h = parsed.h], "expected object with variables to import")
    ELSE IF args[3].t # "entries"
    THEN Fail([p EXCEPT !.h = parsed.h], "expected object with variables to import")
    ELSE ImportEntries([p EXCEPT !.h = parsed.h], args[3].es, 1, parsed.variables)

\* importResolver; file is what the loader returns for the path
importResolver(p, args, file) ==
    IF Len(args) < 1
    THEN Fail(p, "expected 'from' to be the second argument in import statements but got nothing")
    ELSE IF args[1] # Str("from")
    THEN Fail(p, "expected 'from' to be the second argument in import statements but got '"
                 \o Quote(args[1]) \o "'")
    ELSE IF Len(args) < 2 THEN Fail(p, "file path must be a string in import statements")
    ELSE IF args[2].t # "str" THEN Fail(p, "file path must be a string in import statements")
    ELSE IF args[2].s = "" THEN Fail(p, "file path cannot be empty in import statements")
    ELSE IF file.t = "unreadable" THEN Fail(p, "ENOENT: no such file or directory")
    ELSE ImportParsed(p, args, contextParse(p.h, file))

\* extendsResolver, after context.parse: `return { action: "merge", value: data }`
ExtendsParsed(parsed) ==
    IF ~parsed.ok THEN Throw(parsed.h, parsed.msg)
    ELSE Ok(parsed.h, [action |-> "merge", value |-> parsed.data])

\* resolvers.js extendsResolver; file is what the loader returns for the path: a text,
\* which the nested parser parses, or the tree of an already parsed text, or
\* "unreadable" when the loader throws
extendsResolver(h, args, file) ==
    IF Len(h[args.p].a) = 0 THEN Throw(h, "file path must be a string")
    ELSE IF h[args.p].a[1].t # "str" THEN Throw(h, "file path must be a string")
    ELSE IF file.t = "unreadable" THEN Throw(h, "ENOENT: no such file or directory")
    ELSE IF file.t = "text" THEN ExtendsParsed(contextParse(h, file))
    ELSE Returns("merge", AllocTree(h, file))

\* resolveStatement: world.resolver says what Parser.statementResolvers holds for the key
resolveStatement(h, args, world) ==
    IF world.resolver = "extends" THEN extendsResolver(h, args, world.file)
    ELSE UserResolved(h, args, world)

\* parseBlock, operator "statement": the action the resolver returned is carried out
ApplyStatement(h, key, resolved) ==
    IF resolved.action = "push"
    THEN PushArgs(StatementAt(getParentForKey(h, rootToUse(key), key), key), resolved.value)
    ELSE IF resolved.action = "merge"
    THEN IF ~isObject(h, resolved.value)
         THEN Throw(h, "Cannot merge non object values into current document")
         ELSE Ok(deepMerge(h, BlockRoot, resolved.value.p), Undef)
    ELSE Ok(h, Undef)

StatementDone(key, exprs, world, args, resolved, done) ==
    /\ heap' = done.h
    /\ status' = IF done.ok THEN status ELSE "failed"
    /\ err' = IF done.ok THEN err ELSE Error(done.msg)
    /\ last' = [op |-> "statement", key |-> key, exprs |-> exprs, world |-> world,
                ok |-> done.ok, depth |-> Len(blocks), root |-> rootToUse(key),
                block |-> BlockRoot, args |-> args.v, resolved |-> resolved.v,
                pre |-> heap, mid |-> resolved.h]

\* parseBlock, operator "statement": parseStatementArgs, resolveStatement, the action
StatementRun(key, exprs, world) ==
    /\ \E args \in {parseStatementArgs(heap, exprs)} :
       \E resolved \in {IF args.ok THEN resolveStatement(args.h, args.v, world) ELSE args} :
         IF resolved.ok
         THEN StatementDone(key, exprs, world, args, resolved,
                            ApplyStatement(resolved.h, key, resolved.v))
         ELSE StatementDone(key, exprs, world, args, resolved, resolved)
    /\ lines' = lines + 1
    /\ history' = Line("statement", key, [e |-> "statement", exprs |-> exprs, world |-> world])
    /\ UNCHANGED <<result, scopes, blocks, out, exportedVariables, setup>>

\* a statement line; world is what the parser's table holds for the key
StatementLine(key, exprs, world) ==
    /\ CanParseLine
    /\ (world.resolver = "extends") = (key[1].key = "extends")
    /\ StatementRun(key, exprs, world)

\* resolveStatement: `this.statementResolvers.get(key.parts[0].key)`; file is what the
\* loader returns to a resolver that loads one
Registered(key, file) ==
    IF key[1].key \notin DOMAIN resolvers.statements THEN NoResolver
    ELSE IF resolvers.statements[key[1].key].resolver = "extends" THEN Extends(file)
    ELSE resolvers.statements[key[1].key]

\* a statement line resolved through Parser.statementResolvers
TableLine(key, exprs, file) ==
    /\ CanParseLine
    /\ StatementRun(key, exprs, Registered(key, file))

\* parse(input, opts) is called again: `new Parser(input, opts)`
NewParse(opts) ==
    /\ status \in {"done", "failed"}
    /\ parses < MaxParses
    /\ resolvers' = Construct(builtIn, opts).resolvers
    /\ builtIn' = Construct(builtIn, opts).builtIn
    /\ options' = opts
    /\ parses' = parses + 1
    /\ heap' = <<ObjCell("Object", EmptyMap), ObjCell("Object", EmptyMap)>>
    /\ result' = 1
    /\ scopes' = <<2>>
    /\ blocks' = <<>>
    /\ status' = "parsing"
    /\ err' = Undef
    /\ out' = Undef
    /\ exportedVariables' = EmptyMap
    /\ lines' = 0
    /\ history' = <<>>
    /\ last' = [op |-> "new", opts |-> opts, previous |-> options]
    /\ UNCHANGED <<lexer, run>>

\* parseOperator: the token after the key starts neither an operator nor a value
SyntaxErrorLine(key) ==
    /\ CanParseLine
    /\ status' = "failed"
    /\ err' = Error("Unexpected token as operator")
    /\ last' = [op |-> "syntax", key |-> key]
    /\ lines' = lines + 1
    /\ history' = Line("syntax", key, [e |-> "none"])
    /\ UNCHANGED <<heap, result, scopes, blocks, out, exportedVariables, setup>>

(***************************************************************************)
(* The inputs of the model: key paths and values of the source text.       *)
(***************************************************************************)
kA == <<Part("a")>>
kB == <<Part("b")>>
kAB == <<Part("a"), Part("b")>>
kA1 == <<PartAt("a", 1)>>
kV == <<VarPart("$v")>>
kVA == <<VarPart("$v"), Part("a")>>
kBA == <<Part("b"), Part("a")>>
kA1B == <<PartAt("a", 1), Part("b")>>
kExtends == <<Part("extends")>>
kAllow == <<Part("allow")>>
kInclude == <<Part("include")>>

(***************************************************************************)
(* Spec: documents of assignments, unresolved tags, ref() and statements.  *)
(***************************************************************************)
TreeKeys == {kA, kAB}
TreeValues == {Lit(Num(1)), ArrLit(<<Null>>), TagCall("custom", Lit(Bool(FALSE))),
               TagCall("custom", Ident(kAB)),
               TagCall("custom", TagCall("custom", Lit(Null))),
               TagCall("ref", Ident(kA))}
TreeFailingArgs == <<Lit(Str("test"))>>
TreeArgs == {<<Lit(Str("from")), Lit(Num(1))>>, <<TagCall("custom", Lit(Str("x")))>>}

Next ==
    \/ lines < MaxLines /\ \E key \in TreeKeys, e \in TreeValues : AssignLine(key, "assign", e)
    \/ lines < MaxLines /\ \E key \in {kA, kB}, exprs \in TreeArgs :
          StatementLine(key, exprs, NoResolver)
    \/ lines < MaxLines /\ OpenObject(kB, "object-shorthand")
    \/ lines < MaxLines /\ StatementLine(kInclude, TreeFailingArgs, UserThrows("Custom error"))
    \/ lines < MaxLines /\ StatementLine(kExtends, TreeFailingArgs, Extends(Unreadable))
    \/ lines < MaxLines /\ SyntaxErrorLine(kA)
    \/ CloseObject
    \/ EndOfInput

Spec == Init /\ [][Next]_vars

(***************************************************************************)
(* C1                                                                      *)
(***************************************************************************)
\* v holds only external shapes: null, booleans, numbers, strings, arrays and plain
\* objects.  A hole of an array is an absent element, not a value.
RECURSIVE External(_, _, _)
External(h, v, seen) ==
    IF v.t \in {"null", "bool", "num", "str"} THEN TRUE
    ELSE IF v.t = "array" THEN \A i \in 1..Len(v.a) : v.a[i] = Undef \/ External(h, v.a[i], seen)
    ELSE IF v.t = "object" THEN \A k \in DOMAIN v.o : External(h, v.o[k], seen)
    ELSE IF v.t = "ptr"
    THEN /\ v.p \notin seen
         /\ \/ h[v.p].t = "arr"
               /\ \A i \in 1..Len(h[v.p].a) :
                     h[v.p].a[i] = Undef \/ External(h, h[v.p].a[i], seen \cup {v.p})
            \/ h[v.p].t = "obj" /\ h[v.p].cls = "Object"
               /\ \A k \in DOMAIN h[v.p].o : External(h, h[v.p].o[k], seen \cup {v.p})
    ELSE FALSE

ScopeKeys == {kV, kVA}
ScopeValues == {Lit(Num(1)), ArrLit(<<Num(5)>>)}
ScopeReads == {VarRef(kV), VarRef(kVA)}

NextScope ==
    \/ lines < MaxScopeLines /\ \E key \in ScopeKeys, e \in ScopeValues :
          AssignLine(key, "assign", e)
    \/ lines < MaxScopeLines /\ \E e \in ScopeReads : AssignLine(kA, "assign", e)
    \/ lines < MaxScopeLines /\ OpenObject(kB, "object-shorthand")
    \/ CloseObject
    \/ EndOfInput

SpecScope == Init /\ [][NextScope]_vars

(***************************************************************************)
(* C2                                                                      *)
(***************************************************************************)
\* The names bound in each open block of the source text, outermost first, after the
\* first i lines: a block opens with an empty frame and drops it when it closes.
RECURSIVE C2_Frames(_)
C2_Frames(i) ==
    IF i = 0 THEN <<{}>>
    ELSE LET line == history[i]
             before == C2_Frames(i - 1)
             n == Len(before)
         IN IF line.op = "open" THEN Append(before, {})
            ELSE IF line.op = "close" THEN SubSeq(before, 1, n - 1)
            ELSE IF line.op = "assign" /\ line.key[1].type = "variable"
            THEN [before EXCEPT ![n] = before[n] \cup {line.key[1].key}]
            ELSE before

\* the innermost open block that binds the name, 0 when none does
C2_Nearest(frames, name) ==
    LET binding == {i \in 1..Len(frames) : name \in frames[i]}
    IN IF binding = {} THEN 0 ELSE CHOOSE i \in binding : \A j \in binding : j <= i

\* C2: variable resolution is lexically scoped.  The scope chain holds exactly the
\* bindings of the blocks that are open in the source text (a binding of a closed
\* block or of a sibling block is not visible, outer bindings are), and a variable
\* read (bare or dotted) yields the value that the nearest scope binding the
\* variable's name holds at the path; it fails when that scope holds none.
C2_LexicalScoping ==
    /\ status = "parsing" =>
          /\ Len(scopes) = Len(C2_Frames(Len(history)))
          /\ \A i \in 1..Len(scopes) :
                DOMAIN heap[scopes[i]].o = C2_Frames(Len(history))[i]
    /\ last.op = "assign" /\ last.e.e = "var" =>
          LET nearest == C2_Nearest(C2_Frames(Len(history)), last.e.path[1].key)
              there == IF nearest = 0 THEN Undef
                       ELSE getValueAtPath(last.mid, scopes[nearest], last.e.path)
          IN /\ last.ok = (there # Undef)
             /\ last.ok => last.v = there

\* a read inside a block of a variable bound both outside and inside the block
C2_Witness ==
    /\ last.op = "assign" /\ last.e.e = "var" /\ last.ok
    /\ Len(scopes) = 2
    /\ last.e.path[1].key \in DOMAIN heap[scopes[1]].o
    /\ last.e.path[1].key \in DOMAIN heap[scopes[2]].o

(***************************************************************************)
(* SpecRef: documents of assignments, ref() and extends.                   *)
(***************************************************************************)
RefKeys == {kA, kAB, kB, kBA}
RefValues == {Lit(Num(1)), TagCall("ref", Ident(kA)), TagCall("ref", Ident(kAB)),
              TagCall("ref", Ident(kB)), TagCall("ref", VarRef(kV))}
RefBase == TObject([a |-> Num(2)])

NextRef ==
    \/ lines < MaxRefLines /\ \E key \in RefKeys, e \in RefValues :
          AssignLine(key, "assign", e)
    \/ lines < MaxRefLines /\ AssignLine(kV, "assign", Lit(Num(1)))
    \/ lines < MaxRefLines /\ StatementLine(kExtends, <<Lit(Str("base"))>>, Extends(RefBase))
    \/ EndOfInput

SpecRef == Init /\ [][NextRef]_vars

(***************************************************************************)
(* C3                                                                      *)
(***************************************************************************)
C3_IsPrefix(p, q) == Len(p) <= Len(q) /\ SubSeq(q, 1, Len(p)) = p

\* the key paths a line of the source text writes into the document
C3_Writes(line) ==
    IF line.op = "assign" /\ line.key[1].type # "variable" THEN {line.key}
    ELSE IF line.op = "statement" /\ line.e.world.resolver = "extends"
    THEN {<<Part(k)>> : k \in DOMAIN line.e.world.file.o}
    ELSE {}

\* the preceding lines that write at, above or below the path
C3_Touching(p) ==
    {i \in 1..(Len(history) - 1) :
        \E w \in C3_Writes(history[i]) : C3_IsPrefix(w, p) \/ C3_IsPrefix(p, w)}

\* the primitive value a line stores at exactly the path, Undef when it stores none
C3_Stored(line, p) ==
    IF line.op = "assign" /\ line.key = p /\ line.e.e = "lit" THEN line.e.v
    ELSE IF line.op = "statement" /\ Len(p) = 1
            /\ p[1].key \in DOMAIN line.e.world.file.o
            /\ line.e.world.file.o[p[1].key].t = "num"
    THEN line.e.world.file.o[p[1].key]
    ELSE Undef

C3_LastTouching(p) == CHOOSE i \in C3_Touching(p) : \A j \in C3_Touching(p) : j <= i

RECURSIVE ReachableCells(_, _, _)
ReachableCells(h, frontier, seen) ==
    IF frontier \subseteq seen THEN seen
    ELSE ReachableCells(h, {v.p : v \in {x \in UNION {Children(h[c]) : c \in frontier} : IsPtr(x)}},
                  seen \cup frontier)

\* the places (cell and slot) of the document that hold a reference to the cell
C6_Holders(h, cells, c) ==
    {<<p, k>> \in UNION {IF h[p].t = "arr" THEN {p} \X (1..Len(h[p].a))
                         ELSE {p} \X DOMAIN h[p].o : p \in cells} :
        (IF h[p].t = "arr" THEN h[p].a[k] ELSE h[p].o[k]) = Ptr(c)}

\* C6: the result tree is never cyclic and no two keys share structure: every array
\* and object of the document is held by one place, and the root by none.
C6_NoCycleNoSharing ==
    LET cells == ReachableCells(heap, {result}, {})
    IN \A c \in cells :
          Cardinality(C6_Holders(heap, cells, c)) <= (IF c = result THEN 0 ELSE 1)

\* a ref() that returned an object of the document
C6_Witness ==
    /\ last.op = "assign" /\ last.e.e = "tag" /\ last.e.name = "ref" /\ last.ok
    /\ IsPtr(last.v)

(***************************************************************************)
(* SpecMerge: documents of assignments and extends.                        *)
(***************************************************************************)
MergeKeysOfLines == {kA, kAB, kB, kBA}
MergeValues == {Lit(Num(1)), ArrLit(<<Null>>)}
MergeBases == {TObject(EmptyMap),
               TObject([a |-> Num(2)]),
               TObject([a |-> TObject([c |-> Num(3)])]),
               TObject([a |-> TArray(<<Num(2)>>), b |-> TObject([a |-> Num(2)])])}

NextMerge ==
    \/ lines < MaxMergeLines /\ \E key \in MergeKeysOfLines, e \in MergeValues :
          AssignLine(key, "assign", e)
    \/ lines < MaxMergeLines /\ \E file \in MergeBases :
          StatementLine(kExtends, <<Lit(Str("base"))>>, Extends(file))
    \/ EndOfInput

SpecMerge == Init /\ [][NextMerge]_vars

(***************************************************************************)
(* C4                                                                      *)
(***************************************************************************)
\* the document as a tree, before and after the line parsed last
C4_Before == unwrap(last.mid, Ptr(result))
C4_After == unwrap(heap, Ptr(result))

\* C4: extends is order-preserving.  An extends merges the base document under the
\* content already present: a key assigned before the extends keeps its value where
\* the base has a conflicting non-object value.  An assignment after an extends
\* overrides the merged value at its key.
C4_ExtendsMergesUnder ==
    /\ last.op = "statement" /\ last.world.resolver = "extends" /\ last.ok =>
          \A k \in DOMAIN C4_Before.o \cap DOMAIN last.world.file.o :
              last.world.file.o[k].t # "object" => C4_After.o[k] = C4_Before.o[k]
    /\ last.op = "assign" /\ last.ok /\ last.e.e = "lit"
          /\ (\E i \in 1..(Len(history) - 1) : history[i].op = "statement") =>
          getValueAtPath(heap, result, last.key) = last.e.v

\* an extends whose base has a non-object value at a key assigned before
C4_Witness ==
    /\ last.op = "statement" /\ last.world.resolver = "extends" /\ last.ok
    /\ \E k \in DOMAIN C4_Before.o \cap DOMAIN last.world.file.o :
          last.world.file.o[k].t # "object"

(***************************************************************************)
(* C9                                                                      *)
(***************************************************************************)
\* the deep-merge rule on trees
RECURSIVE C9_Merged(_, _)
C9_Merged(target, source) ==
    TObject([k \in DOMAIN target.o \cup DOMAIN source.o |->
        IF k \notin DOMAIN source.o THEN target.o[k]
        ELSE IF k \in DOMAIN target.o /\ target.o[k].t = "object" /\ source.o[k].t = "object"
        THEN C9_Merged(target.o[k], source.o[k])
        ELSE source.o[k]])

\* C9: deepMerge(target, source) follows the deep-merge rule.  For each key of source,
\* when the target value and the source value are both objects the merge recurses
\* into them; in every other combination the target value is replaced by the source
\* value; keys present only in target are unchanged.
C9_DeepMergeRule ==
    last.op = "statement" /\ last.world.resolver = "extends" /\ last.ok =>
        unwrap(heap, Ptr(result)) = C9_Merged(unwrap(last.mid, Ptr(result)), last.world.file)

\* a merge that recursed into an object, added a key there and kept a key of the target
C9_Witness ==
    /\ last.op = "statement" /\ last.world.resolver = "extends" /\ last.ok
    /\ "a" \in DOMAIN last.world.file.o /\ last.world.file.o["a"].t = "object"
    /\ isObject(last.mid, GetProp(last.mid, result, StrKey("a")))
    /\ "b" \in DOMAIN heap[result].o /\ "b" \notin DOMAIN last.world.file.o
    /\ getValueAtPath(heap, result, <<Part("a"), Part("c")>>) = Num(3)

(***************************************************************************)
(* SpecArray: documents of index assignments and appends on one key.       *)
(***************************************************************************)
ArrayKeys == {kA, kA1, kA1B}
ArrayValues == {Lit(Num(1)), ArrLit(<<Num(5)>>)}

NextArray ==
    \/ lines < MaxArrayLines /\ \E key \in ArrayKeys, e \in ArrayValues :
          AssignLine(key, "assign", e)
    \/ lines < MaxArrayLines /\ \E e \in ArrayValues : AppendLine(kA, e)
    \/ EndOfInput

SpecArray == Init /\ [][NextArray]_vars

(***************************************************************************)
(* C5                                                                      *)
(***************************************************************************)
\* the elements of the array stored at the key of the root, <<>> when there is none
C5_ArrayAt(h, name) ==
    IF IsArray(h, GetProp(h, result, StrKey(name)))
    THEN h[GetProp(h, result, StrKey(name)).p].a
    ELSE <<>>

\* C5: every array of the result is dense.  No array holds a hole or undefined; an
\* assignment at index i of an array of length n <= i leaves the positions n..i-1
\* null, and the positions set before keep their values.
C5_ArraysDense ==
    /\ \A p \in ReachableCells(heap, {result}, {}) :
          heap[p].t = "arr" => \A j \in 1..Len(heap[p].a) : heap[p].a[j] # Undef
    /\ last.op = "assign" /\ last.ok /\ Len(last.key) = 1 /\ last.key[1].index # NoIndex =>
          LET old == C5_ArrayAt(last.pre, last.key[1].key)
              new == C5_ArrayAt(heap, last.key[1].key)
              i == last.key[1].index
          IN /\ Len(new) = (IF Len(old) > i THEN Len(old) ELSE i + 1)
             /\ \A j \in 1..Len(new) :
                   new[j] = (IF j = i + 1 THEN last.v
                             ELSE IF j <= Len(old) THEN old[j] ELSE Null)

\* an assignment at an index past the end of the array
C5_Witness ==
    /\ last.op = "assign" /\ last.ok /\ Len(last.key) = 1 /\ last.key[1].index # NoIndex
    /\ Len(C5_ArrayAt(last.pre, last.key[1].key)) < last.key[1].index

(***************************************************************************)
(* C7                                                                      *)
(***************************************************************************)
\* the value a literal of the source text stands for, as a tree
C7_ValueOf(e) == IF e.e = "array" THEN TArray(e.elems) ELSE e.v

\* the first line of the run of appends to the key that ends the source text so far
RECURSIVE C7_RunStart(_, _)
C7_RunStart(key, i) ==
    IF i > 1 /\ history[i - 1].op = "append" /\ history[i - 1].key = key
    THEN C7_RunStart(key, i - 1)
    ELSE i

\* what the slot holds before the run, as far as the source text alone tells:
\* absent (no line before), a non-array value or an array literal assigned to the key
C7_Known(key, start) ==
    \/ start = 1
    \/ history[start - 1].op = "assign" /\ history[start - 1].key = key

C7_Base(key, start) ==
    IF start > 1 /\ history[start - 1].e.e = "array" THEN history[start - 1].e.elems ELSE <<>>

\* C7: appends build the array in source order.  Each `key << v` pushes v after the
\* elements of the array at the slot, which stay unchanged, and starts from the empty
\* array when the slot is absent or holds a non-array value (which is discarded); so
\* n consecutive appends on such a slot yield exactly [v_1, ..., v_n].
C7_AppendInOrder ==
    last.op = "append" /\ last.ok =>
        LET slot == getValueAtPath(last.pre, last.root, last.key)
            before == IF IsArray(last.pre, slot) THEN last.pre[slot.p].a ELSE <<>>
            after == getValueAtPath(heap, last.root, last.key)
            start == C7_RunStart(last.key, Len(history))
        IN /\ IsArray(heap, after)
           /\ heap[after.p].a = Append(before, last.v)
           /\ IsArray(last.pre, slot) => after = slot
           /\ C7_Known(last.key, start) =>
                 unwrap(heap, after) =
                    TArray(C7_Base(last.key, start)
                           \o [j \in 1..(Len(history) - start + 1) |->
                                  C7_ValueOf(history[start + j - 1].e)])

\* two appends in a row on a slot that held a number
C7_Witness ==
    /\ last.op = "append" /\ last.ok
    /\ Len(history) = 3
    /\ history[1].op = "assign" /\ history[1].key = last.key /\ history[1].e.e = "lit"
    /\ history[2].op = "append"
    /\ Len(heap[getValueAtPath(heap, last.root, last.key).p].a) = 2

(***************************************************************************)
(* SpecStatement: documents of statement lines, `allow` without a resolver *)
(* and `include` with a resolver of the user.                              *)
(***************************************************************************)
StatementArgLists == {<<Ident(<<Part("from")>>), Lit(Num(1))>>, <<Lit(Bool(FALSE))>>}
StatementActions == {"collect", "push"}
StatementReturnValues == {Undef, Num(0), Str("v")}

NextStatement ==
    \/ lines < MaxStatementLines /\ \E exprs \in StatementArgLists :
          StatementLine(kAllow, exprs, NoResolver)
    \/ lines < MaxStatementLines
          /\ \E exprs \in StatementArgLists, action \in StatementActions,
                value \in StatementReturnValues :
                StatementLine(kInclude, exprs, UserReturns(action, value))
    \/ EndOfInput

SpecStatement == Init /\ [][NextStatement]_vars

(***************************************************************************)
(* C8                                                                      *)
(***************************************************************************)
\* the groups of the Statement record at the key, <<>> when there is no record
C8_Groups(h, key) ==
    IF InstanceOf(h, getValueAtPath(h, result, key), "Statement")
    THEN unwrap(h, getValueAtPath(h, result, key)).a
    ELSE <<>>

\* the arguments of a statement line as the values they stand for
C8_Arguments(exprs) ==
    TArray([i \in 1..Len(exprs) |->
              IF exprs[i].e = "ident" THEN Str(exprs[i].path[1].key) ELSE exprs[i].v])

\* C8: every statement line whose key has no resolver, or whose resolver returns
\* collect (push in parse.js), appends exactly one group to the Statement record at
\* the key, in source order, creating the record on the first such line.  The group
\* is the provided value whenever one is provided (false, 0, null and "" included)
\* and otherwise the array of the line's arguments.
C8_OneGroupPerLine ==
    last.op = "statement" /\ last.ok
        /\ (last.world.resolver = "none" \/ last.world.action \in {"collect", "push"}) =>
        /\ InstanceOf(heap, getValueAtPath(heap, result, last.key), "Statement")
        /\ C8_Groups(heap, last.key) =
              Append(C8_Groups(last.pre, last.key),
                     IF last.world.resolver = "user" /\ last.world.value # Undef
                     THEN last.world.value
                     ELSE C8_Arguments(last.exprs))

\* a second statement line on a key that holds a Statement record already
C8_Witness ==
    /\ last.op = "statement" /\ last.ok
    /\ Len(C8_Groups(last.pre, last.key)) = 1
    /\ Len(C8_Groups(heap, last.key)) = 2

(***************************************************************************)
(* C10                                                                     *)
(***************************************************************************)
\* C10: every failed parse rejects with a BconfError that carries the message and the
\* row and column (both >= 1) of the token current at the failure, and returns no
\* data; an error thrown inside a resolver is re-wrapped as such a BconfError and
\* keeps the resolver's message.
C10_FailuresAreBconfErrors ==
    status = "failed" =>
        /\ err.name = "BconfError"
        /\ {"message", "row", "column"} \subseteq DOMAIN err
        /\ err.row >= 1 /\ err.column >= 1
        /\ out = Undef
        /\ last.op = "statement" /\ last.world.resolver = "throws" =>
              err.message = last.world.message

\* a parse that failed inside a statement resolver of the user
C10_Witness ==
    /\ status = "failed"
    /\ last.op = "statement" /\ last.world.resolver = "throws"
    /\ err.message = "Custom error"

kImport == <<Part("import")>>
kExport == <<Part("export")>>
kVarA == <<VarPart("$a")>>
kVarB == <<VarPart("$b")>>

\* parseBlock, operator "statement", key import or export: the built-in resolver runs
\* and answers "discard"
ModuleDone(key, args, file, done) ==
    /\ heap' = done.p.h
    /\ exportedVariables' = done.p.exportedVariables
    /\ status' = IF done.ok THEN status ELSE "failed"
    /\ err' = IF done.ok THEN err ELSE Error(done.msg)
    /\ last' = [op |-> "module", key |-> key, args |-> args, file |-> file, ok |-> done.ok,
                depth |-> Len(blocks), pre |-> heap, exported |-> exportedVariables]

ModuleLine(key, args, file) ==
    /\ CanParseLine
    /\ IF key = kImport THEN ModuleDone(key, args, file, importResolver(Here, args, file))
       ELSE ModuleDone(key, args, file, exportResolver(Here, args))
    /\ lines' = lines + 1
    /\ history' = Line("statement", key, [e |-> "module", args |-> args, file |-> file])
    /\ UNCHANGED <<result, scopes, blocks, out, setup>>

(***************************************************************************)
(* SpecModule: documents that declare, import and export variables.        *)
(***************************************************************************)
\* the files the loader knows:
\*   $a = 1 / export vars { $a }
\*   $a = 1 / $b = 2 / export vars { $a as $c, x = true }
\*   a = 1 / export vars { $b }
ModuleFiles ==
    {Text(<<AssignText(kVarA, Lit(Num(1))),
            StatementText(kExport, <<Str("vars"), Entries(<<Entry("$a", Bool(TRUE))>>)>>)>>),
     Text(<<AssignText(kVarA, Lit(Num(1))), AssignText(kVarB, Lit(Num(2))),
            StatementText(kExport,
                <<Str("vars"),
                  Entries(<<Entry("$a", AliasStatement(<<As("$c")>>)),
                            Entry("x", Bool(TRUE))>>)>>)>>),
     Text(<<AssignText(kA, Lit(Num(1))),
            StatementText(kExport, <<Str("vars"), Entries(<<Entry("$b", Bool(TRUE))>>)>>)>>)}

\* the instruction blocks of the import and export lines:
\*   { $a }   { $b }   { $a as $b }   { $c, $a = false }   { $a as $b, $a as $c }
\*   { $b = $a }   { x }
ModuleInstructions ==
    {Entries(<<Entry("$a", Bool(TRUE))>>),
     Entries(<<Entry("$b", Bool(TRUE))>>),
     Entries(<<Entry("$a", AliasStatement(<<As("$b")>>))>>),
     Entries(<<Entry("$c", Bool(TRUE)), Entry("$a", Bool(FALSE))>>),
     Entries(<<Entry("$a", CollectionOf(<<AliasStatement(<<As("$b")>>),
                                          AliasStatement(<<As("$c")>>)>>))>>),
     Entries(<<Entry("$b", KeyPathValue(kVarA))>>),
     Entries(<<Entry("x", Bool(TRUE))>>)}

ModulePath == Str("./file.bconf")

NextModule ==
    \/ lines < MaxModuleLines /\ \E key \in {kVarA, kVarB}, n \in {3, 4} :
          AssignLine(key, "assign", Lit(Num(n)))
    \/ lines < MaxModuleLines /\ \E instructions \in ModuleInstructions, file \in ModuleFiles :
          ModuleLine(kImport, <<Str("from"), ModulePath, instructions>>, file)
    \/ lines < MaxModuleLines /\ \E instructions \in ModuleInstructions :
          ModuleLine(kExport, <<Str("vars"), instructions>>, Unreadable)
    \/ lines < MaxModuleLines /\ OpenObject(kB, "object-shorthand")
    \/ CloseObject
    \/ EndOfInput

SpecModule == Init /\ [][NextModule]_vars

\* the variable names of the model
VariableNames == {"$a", "$b", "$c"}

\* the last line was an import (export) statement
Imported == last.op = "module" /\ last.key = kImport
Exported == last.op = "module" /\ last.key = kExport

\* the parser as it was before the last line
Before == [h |-> last.pre, result |-> result, scopes |-> scopes,
           exportedVariables |-> last.exported]

\* the entries of an instruction block that ask for a variable
Requested(es) ==
    {i \in 1..Len(es) : startsWith(es[i].name, "$") /\ es[i].instruction # Bool(FALSE)}

\* the alias Statements of an instruction: the instruction or, in a Collection, its members
AliasStatements(instruction) ==
    IF instruction.t = "statement" THEN {instruction}
    ELSE IF instruction.t = "collection"
    THEN {c \in {instruction.collected[j] : j \in 1..Len(instruction.collected)} :
             c.t = "statement"}
    ELSE {}

\* the aliases an instruction gives
AliasesOf(instruction) ==
    UNION {{c.args[i][2].parts[1].key : i \in 1..Len(c.args)} :
             c \in AliasStatements(instruction)}

\* the entry also lists its name without an alias
ListsName(instruction) ==
    IF instruction.t = "statement" THEN FALSE
    ELSE IF instruction.t = "collection"
    THEN \E j \in 1..Len(instruction.collected) : instruction.collected[j].t # "statement"
    ELSE TRUE

\* the names an entry binds: its aliases and, when listed without an alias, its own name
BoundBy(entry) ==
    AliasesOf(entry.instruction)
        \cup (IF ListsName(entry.instruction) THEN {entry.name} ELSE {})

(***************************************************************************)
(* C11: after an import line, (a) a requested name that the file does not  *)
(* export makes the line fail, with the 'is not exported' message when it  *)
(* is the first request; (b) after a successful import every variable of   *)
(* every scope is as before, unless an entry binds its name, and then it   *)
(* holds the exported value of that entry's name: nothing the file did not *)
(* export becomes resolvable; (c) the document's data is unchanged.        *)
(***************************************************************************)
C11_File == contextParse(last.pre, last.file)

C11_Missing(es, variables) == {i \in Requested(es) : es[i].name \notin DOMAIN variables}

C11_NotExportedFails(es, variables) ==
    C11_Missing(es, variables) # {} =>
        /\ ~last.ok
        /\ (\A j \in Requested(es) : \E i \in C11_Missing(es, variables) : i <= j)
              => err.message = "variable '" \o es[CHOOSE i \in Requested(es) :
                                                     \A j \in Requested(es) : i <= j].name
                               \o "' is not exported from '[object Object]'"

C11_OnlyListed(es, variables) ==
    last.ok =>
        /\ \A f \in 1..Len(scopes), n \in VariableNames :
              \/ GetProp(heap, scopes[f], StrKey(n)) = GetProp(last.pre, scopes[f], StrKey(n))
              \/ /\ f = Len(scopes)
                 /\ \E i \in Requested(es) :
                       /\ n \in BoundBy(es[i])
                       /\ GetProp(heap, scopes[f], StrKey(n)) = variables[es[i].name]
        /\ unwrap(heap, Ptr(result)) = unwrap(last.pre, Ptr(result))

C11_ImportOnlyExported ==
    Imported /\ last.file # Unreadable =>
        /\ C11_NotExportedFails(last.args[3].es, C11_File.variables)
        /\ C11_OnlyListed(last.args[3].es, C11_File.variables)

\* the file defines $b and exports only $c: the line `import from "./file.bconf" { $b }`
\* has failed
C11_Witness ==
    /\ Imported
    /\ ~last.ok
    /\ last.args[3].es = <<Entry("$b", Bool(TRUE))>>
    /\ "$b" \notin DOMAIN C11_File.variables
    /\ "$c" \in DOMAIN C11_File.variables
    /\ err.message = "variable '$b' is not exported from '[object Object]'"

(***************************************************************************)
(* C12: after an import line, (a) when an alias of a requested entry was   *)
(* resolvable through the scope chain before the line, the line has        *)
(* failed, with the 'has already been declared' message when it is the     *)
(* first alias of the first request and that name is exported; (b) every   *)
(* variable that a scope held before the line holds the same value after   *)
(* it, whether the import succeeded or not.                                *)
(***************************************************************************)
C12_First(es) == CHOOSE i \in Requested(es) : \A j \in Requested(es) : i <= j

C12_DeclaredAliasFails(es, variables) ==
    /\ (\E i \in Requested(es) : \E a \in AliasesOf(es[i].instruction) :
            getVariable(Before, a) # Undef) => ~last.ok
    /\ \A a \in VariableNames :
          /\ Requested(es) # {}
          /\ es[C12_First(es)].name \in DOMAIN variables
          /\ es[C12_First(es)].instruction.t = "statement"
          /\ es[C12_First(es)].instruction.args[1] = As(a)
          /\ getVariable(Before, a) # Undef
          => err.message = "variable '" \o a
                           \o "' cannot be imported as it has already been declared"

C12_DeclaredUnchanged ==
    \A f \in 1..Len(scopes), n \in VariableNames :
        GetProp(last.pre, scopes[f], StrKey(n)) # Undef
           => GetProp(heap, scopes[f], StrKey(n)) = GetProp(last.pre, scopes[f], StrKey(n))

C13_Listed(es) == {i \in 1..Len(es) : startsWith(es[i].name, "$")}

C13_Frame(es) ==
    /\ \A i \in 1..Len(es) :
          ~startsWith(es[i].name, "$") => es[i].name \notin DOMAIN exportedVariables
    /\ \A n \in DOMAIN last.exported :
          n \in DOMAIN exportedVariables /\ exportedVariables[n] = last.exported[n]
    /\ heap = last.pre

C13_AsStated(es) ==
    /\ \A i \in C13_Listed(es) :
          /\ es[i].name \in DOMAIN exportedVariables
          /\ exportedVariables[es[i].name] = FoundOrTrue(getVariable(Before, es[i].name))
          /\ \A a \in AliasesOf(es[i].instruction) :
                /\ a \in DOMAIN exportedVariables
                /\ exportedVariables[a] = FoundOrTrue(getVariable(Before, es[i].name))
    /\ C13_Frame(es)

C13_ExportBindsEveryName == Exported /\ last.ok => C13_AsStated(last.args[2].es)

(***************************************************************************)
(* C13 amended: after a successful export line, a $name listed without an  *)
(* alias is exported with the value $name had in scope, or with the value  *)
(* of the key path written as its value, or with true when that has no     *)
(* value; a $name listed as `$name as $alias` is exported under $alias     *)
(* only; nothing else is added to the exported variables, and the data and *)
(* the scopes are unchanged.                                               *)
(***************************************************************************)
C13_ValueOf(entry) ==
    IF entry.instruction.t = "keypath"
    THEN FoundOrTrue(ResolveIn(last.pre, scopes, entry.instruction.parts, Len(scopes)))
    ELSE FoundOrTrue(getVariable(Before, entry.name))

C13_Amended(es) ==
    /\ \A i \in C13_Listed(es) :
          /\ ListsName(es[i].instruction) =>
                /\ es[i].name \in DOMAIN exportedVariables
                /\ exportedVariables[es[i].name] = C13_ValueOf(es[i])
          /\ \A a \in AliasesOf(es[i].instruction) :
                /\ a \in DOMAIN exportedVariables
                /\ exportedVariables[a] = FoundOrTrue(getVariable(Before, es[i].name))
    /\ DOMAIN exportedVariables =
          DOMAIN last.exported \cup UNION {BoundBy(es[i]) : i \in C13_Listed(es)}
    /\ C13_Frame(es)

C13_ExportBindsNamesOrAliases == Exported /\ last.ok => C13_Amended(last.args[2].es)

\* `$a = 3` and then `export vars { $a as $b }`: $b is exported with 3 and $a is not
C13_Witness ==
    /\ Exported
    /\ last.ok
    /\ last.args[2].es = <<Entry("$a", AliasStatement(<<As("$b")>>))>>
    /\ getVariable(Before, "$a") = Num(3)
    /\ exportedVariables = [n \in {"$b"} |-> Num(3)]

(***************************************************************************)
(* SpecDeclare: statements whose resolver calls context.declareVariable.   *)
(***************************************************************************)
\* parseBlock, operator "statement", with the resolver
\*   (args, context) => { context.declareVariable(name, value, args); return discard }
DeclareDone(key, name, value, args, declared) ==
    /\ heap' = declared.p.h
    /\ exportedVariables' = declared.p.exportedVariables
    /\ last' = [op |-> "declare", key |-> key, name |-> name, value |-> value,
                args |-> args, success |-> declared.success, depth |-> Len(blocks),
                pre |-> heap, exported |-> exportedVariables]

DeclareLine(key, name, value, args) ==
    /\ CanParseLine
    /\ DeclareDone(key, name, value, args, declareVariable(Here, name, value, args))
    /\ lines' = lines + 1
    /\ history' = Line("statement", key,
                       [e |-> "declare", name |-> name, value |-> value, args |-> args])
    /\ UNCHANGED <<result, scopes, blocks, status, err, out, setup>>

DeclareNames == {"$a", "$a.b", "$a[0]", "x"}
DeclareArgs == {SetArgs(scope, override, FALSE, FALSE) :
                  scope \in {"current", "root"}, override \in BOOLEAN}
               \cup {ExportOnly, SetArgs("current", FALSE, TRUE, FALSE)}

NextDeclare ==
    \/ lines < MaxDeclareLines /\ AssignLine(kVarA, "assign", Lit(Num(3)))
    \/ lines < MaxDeclareLines /\ \E name \in DeclareNames, args \in DeclareArgs :
          DeclareLine(kInclude, name, Num(4), args)
    \/ lines < MaxDeclareLines /\ OpenObject(kB, "object-shorthand")
    \/ CloseObject
    \/ EndOfInput

SpecDeclare == Init /\ [][NextDeclare]_vars

(***************************************************************************)
(* C14: a call of variables.set(name, value, args) that asks for no export *)
(* returns false and leaves every scope as it was when the name does not   *)
(* start with `$`, holds `.`, `[` or `]`, or is bound in the scope the     *)
(* call targets (the root scope for scope "root", else the current scope)  *)
(* while override is not set; otherwise it returns true and the targeted   *)
(* scope binds the name to the value.                                      *)
(***************************************************************************)
C14_Target == IF last.args.scope = "root" THEN scopes[1] ELSE scopes[Len(scopes)]

C14_Refused ==
    \/ ~startsWith(last.name, "$")
    \/ includes(last.name, ".") \/ includes(last.name, "[") \/ includes(last.name, "]")
    \/ /\ ~last.args.override
       /\ GetProp(last.pre, C14_Target, StrKey(last.name)) # Undef

C14_SetBindsInTargetScope ==
    last.op = "declare" /\ ~last.args.export /\ ~last.args.exportOnly =>
        IF C14_Refused
        THEN ~last.success /\ heap = last.pre
        ELSE last.success /\ GetProp(heap, C14_Target, StrKey(last.name)) = last.value

\* $a = 3 at the root; inside an object block set("$a", 4, { scope: "root" }) was called
C14_Witness ==
    /\ last.op = "declare"
    /\ last.depth = 1
    /\ last.name = "$a"
    /\ last.args = SetArgs("root", FALSE, FALSE, FALSE)
    /\ GetProp(last.pre, scopes[1], StrKey("$a")) = Num(3)

(***************************************************************************)
(* SpecOptions: parses with user resolvers, and statements that parse a    *)
(* text through context.parse.                                             *)
(***************************************************************************)
\* the options of the parses: none; a statement resolver for `include` that discards the
\* line; a resolver that replaces the built-in `extends`; a resolver for the tag `ref`
OptionSets ==
    {NoOptions,
     Options([n \in {} |-> NoResolver],
             [n \in {"include"} |-> UserReturns("discard", Undef)]),
     Options([n \in {} |-> NoResolver],
             [n \in {"extends"} |-> UserReturns("merge", TObject([c |-> Num(9)]))]),
     Options([n \in {"ref"} |-> [resolver |-> "user"]], [n \in {} |-> NoResolver])}

\* the texts the loader knows:
\*   include "x" / a = 1
\*   $a = 1 / export vars { $a } / a = $a
\*   a = 1 / b = ref(a)
OptionFiles ==
    {Text(<<StatementText(kInclude, <<Str("x")>>), AssignText(kA, Lit(Num(1)))>>),
     Text(<<AssignText(kVarA, Lit(Num(1))),
            StatementText(kExport, <<Str("vars"), Entries(<<Entry("$a", Bool(TRUE))>>)>>),
            AssignText(kA, VarRef(kVarA))>>),
     Text(<<AssignText(kA, Lit(Num(1))), AssignText(kB, TagCall("ref", Ident(kA)))>>)}

NextOptions ==
    \/ \E opts \in OptionSets : NewParse(opts)
    \/ lines < MaxOptionLines /\ \E key \in {kA, kVarA} : AssignLine(key, "assign", Lit(Num(3)))
    \/ lines < MaxOptionLines /\ \E key \in {kInclude, kExtends}, file \in OptionFiles :
          TableLine(key, <<Lit(Str("base"))>>, file)
    \/ lines < MaxOptionLines /\ \E file \in OptionFiles :
          ModuleLine(kImport, <<Str("from"), ModulePath,
                                Entries(<<Entry("$a", Bool(TRUE))>>)>>, file)
    \/ EndOfInput

SpecOptions == Init /\ [][NextOptions]_vars

\* the last line was `extends "base"`, run by the built-in resolver on a text
Extended ==
    /\ last.op = "statement"
    /\ last.world.resolver = "extends"
    /\ last.world.file.t = "text"

\* the heap when the resolver of the last statement line was called
CallHeap == parseStatementArgs(last.pre, last.exprs).h

(***************************************************************************)
(* C15: when the built-in extends has parsed a text through context.parse, *)
(* the data it got (and the exported variables of that nested parse) are   *)
(* those of a parse of the same text with the options of the enclosing     *)
(* parse, and the nested parse failed exactly when that parse fails.       *)
(***************************************************************************)
C15_SameAs(top, nested) ==
    /\ top.ok = nested.ok
    /\ top.ok = (last.resolved # Undef)
    /\ top.ok => /\ unwrap(last.mid, last.resolved.value) = unwrap(top.h, top.data)
                 /\ nested.variables = top.variables

C15_NestedParseUsesOptions ==
    Extended => C15_SameAs(ParseText(CallHeap, last.world.file, options),
                           contextParse(CallHeap, last.world.file))

\* the parse has a user resolver for `include`, and the text it extends holds an
\* `include` line
C15_Witness ==
    /\ Extended
    /\ "include" \in DOMAIN options.statements
    /\ last.world.file.lines[1] = StatementText(kInclude, <<Str("x")>>)
    /\ last.ok

(***************************************************************************)
(* C16: when a resolver (extends or import) has parsed a text through      *)
(* context.parse, (a) the nested parse gave what a parse of the text that  *)
(* starts from nothing gives: the same data, exported variables and        *)
(* outcome, whatever the enclosing parser holds; (b) its result and scope  *)
(* are new objects; (c) every object of the enclosing parser, so its       *)
(* result tree and its scope chain, is after the nested parse as it was    *)
(* before, and so are its exported variables.                              *)
(***************************************************************************)
C16_Fresh(nested, alone) ==
    /\ nested.ok = alone.ok
    /\ nested.ok =>
          /\ unwrap(nested.h, nested.data) = unwrap(alone.h, alone.data)
          /\ nested.variables = alone.variables
          /\ nested.data.p > Len(CallHeap)
          /\ \A i \in 1..Len(nested.scopes) : nested.scopes[i] > Len(CallHeap)

C16_Frame(before, nested) == \A c \in 1..Len(before) : nested.h[c] = before[c]

\* the heap of a parser that has parsed nothing
C16_Empty == <<ObjCell("Object", EmptyMap), ObjCell("Object", EmptyMap)>>

C17_Overrides(table, given, built) ==
    /\ DOMAIN table = DOMAIN built \cup DOMAIN given
    /\ \A n \in DOMAIN given : table[n] = given[n]
    /\ \A n \in DOMAIN built \ DOMAIN given : table[n] = built[n]

C17_Dispatched ==
    last.op = "statement" /\ last.key = kExtends =>
        IF "extends" \in DOMAIN options.statements
        THEN last.world = options.statements["extends"]
        ELSE last.world.resolver = "extends"

StringVariables == {Lit(Num(3)), ArrLit(<<Num(1), Num(2)>>)}

\* what stands between `${` and the end of the embedded value
StringInner ==
    {Lit(Num(3)), Lit(Bool(TRUE)), Lit(Null), StrExpr(<<Content("x")>>),
     VarRef(kV), TagCall("ref", Ident(kA)), TagCall("ref", Ident(kB)),
     TagCall("custom", Lit(Num(1))), ArrLit(<<Num(1)>>), EndOfText}

StringValues == {StrExpr(<<Content("n: "), Embedded(inner, closed)>>) :
                    inner \in StringInner, closed \in BOOLEAN}

NextString ==
    \/ lines < MaxStringLines /\ \E e \in StringVariables : AssignLine(kV, "assign", e)
    \/ lines < MaxStringLines /\ AssignLine(kA, "assign", Lit(Str("x")))
    \/ lines < MaxStringLines /\ OpenObject(kB, "assign")
    \/ CloseObject
    \/ lines < MaxStringLines /\ \E key \in {kA, kBA}, e \in StringValues :
          AssignLine(key, "assign", e)
    \/ EndOfInput

SpecString == Init /\ [][NextString]_vars

\* the embedded value of the string the last line assigns
C18_Part == last.e.parts[2]

\* what the embedded expression evaluates to as a value of its own
C18_Value == parseValue(last.pre, C18_Part.inner)

C18_Primitive(value) == value.ok /\ value.v.t \in {"str", "num", "bool", "null"}

C18_Text(v) ==
    IF v.t = "str" THEN v.s
    ELSE IF v.t = "num" THEN ToString(v.n)
    ELSE IF v.t = "bool" THEN (IF v.b THEN "true" ELSE "false")
    ELSE "null"

(***************************************************************************)
(* C18: a string with an embedded expression is assigned with the text of  *)
(* the expression's value in its place when the value is a string, a       *)
(* number, a boolean or null and the expression is closed by `}`; when the *)
(* value is an object, an array or an unresolved tag, when the variable is *)
(* not bound, or when the `}` is missing, the line fails.                  *)
(***************************************************************************)
C18_EmbeddedIsPrimitiveText ==
    last.op = "assign" /\ last.e.e = "string" =>
        IF C18_Primitive(C18_Value) /\ C18_Part.closed
        THEN last.ok /\ last.v = Str("n: " \o C18_Text(C18_Value.v))
        ELSE ~last.ok

\* `a = "n: ${3}"` has been read
C18_Witness ==
    /\ last.op = "assign" /\ last.e.e = "string"
    /\ C18_Part.inner = Lit(Num(3)) /\ C18_Part.closed

(***************************************************************************)
(* SpecEscape: documents of one line `a = "\u..."` or `a = "\U..."`, the    *)
(* string being the end of the input.                                      *)
(***************************************************************************)
PayloadChars == {"0", "1", "Z"}

RECURSIVE Payloads(_)
Payloads(n) ==
    IF n = 0 THEN {<<>>}
    ELSE Payloads(n - 1) \cup
         {Append(p, c) : p \in {q \in Payloads(n - 1) : Len(q) = n - 1}, c \in PayloadChars}

EscapeTexts == {<<"\\", kind>> \o payload \o <<"\"">> :
                   kind \in {"u", "U"}, payload \in Payloads(MaxPayload)}

NextEscape ==
    \/ history = <<>> /\ \E chars \in EscapeTexts : AssignLine(kA, "assign", TextExpr(chars))
    \/ EndOfInput

SpecEscape == Init /\ [][NextEscape]_vars

\* the characters between `\u` or `\U` and the closing quote of the string
C19_Payload == SubSeq(last.e.chars, 3, Len(last.e.chars) - 1)

C19_Digits == IF last.e.chars[2] = "u" THEN 4 ELSE 8

RECURSIVE C19_Number(_, _, _)
C19_Number(chars, i, n) ==
    IF i > Len(chars) THEN n ELSE C19_Number(chars, i + 1, 16 * n + HexValue(chars[i]))

C19_Escape == SubSeq(C19_Payload, 1, C19_Digits)

C19_Valid ==
    /\ Len(C19_Payload) >= C19_Digits
    /\ \A i \in 1..C19_Digits : IsHexDigit(C19_Payload[i])
    /\ C19_Number(C19_Escape, 1, 0) <= MaxCodePoint

C19_Content ==
    [i \in 1..(Len(C19_Payload) - C19_Digits) |-> CodePointAt(C19_Payload[C19_Digits + i])]

(***************************************************************************)
(* C19: a string that starts with `\u` (`\U`) is accepted exactly when 4   *)
(* (8) hexadecimal digits that denote a code point follow, and its value   *)
(* then starts with exactly that code point; with any other payload the    *)
(* line fails; and the escape token never holds the string's closing       *)
(* quote.                                                                  *)
(***************************************************************************)
C19_UnicodeEscapeIsStrict ==
    last.op = "assign" /\ last.e.e = "text" =>
        /\ IF C19_Valid
           THEN last.ok
                /\ last.v = CodePoints(<<C19_Number(C19_Escape, 1, 0)>> \o C19_Content)
           ELSE ~last.ok
        /\ \A i \in DOMAIN readEscapeSequence(last.e.chars, 1) :
              readEscapeSequence(last.e.chars, 1)[i] # "\""

\* `a = "\u0011"` has been read
C19_Witness ==
    /\ last.op = "assign" /\ last.e.e = "text"
    /\ last.e.chars = <<"\\", "u", "0", "0", "1", "1", "\"">>

(***************************************************************************)
(* SpecNumber: documents of one line `a = number("...")`, and number() of  *)
(* the other primitives.                                                   *)
(***************************************************************************)
NumberChars == {"0", "1", "_", ".", "e", "-", "x", " "}

RECURSIVE NumberTexts(_)
NumberTexts(n) ==
    IF n = 0 THEN {<<>>}
    ELSE NumberTexts(n - 1) \cup
         {Append(p, c) : p \in {q \in NumberTexts(n - 1) : Len(q) = n - 1}, c \in NumberChars}

NumberArguments ==
    {TextExpr(Append(chars, "\"")) : chars \in NumberTexts(MaxNumberLen)}
    \cup {Lit(Num(3)), Lit(Bool(TRUE)), Lit(Bool(FALSE)), Lit(Null), ArrLit(<<Num(1)>>)}

NextNumber ==
    \/ history = <<>> /\ \E arg \in NumberArguments : AssignLine(kA, "assign", TagCall("number", arg))
    \/ EndOfInput

SpecNumber == Init /\ [][NextNumber]_vars

\* the string number() is applied to
C20_String == SubSeq(last.e.arg.chars, 1, Len(last.e.arg.chars) - 1)

\* digits with single underscores between them
C20_Digits(s) ==
    /\ s # <<>>
    /\ IsDigit(s[1]) /\ IsDigit(s[Len(s)])
    /\ \A i \in 1..Len(s) : IsDigit(s[i]) \/ s[i] = "_"
    /\ \A i \in 1..(Len(s) - 1) : ~(s[i] = "_" /\ s[i + 1] = "_")

C20_Unsigned(s) == IF s # <<>> /\ s[1] \in {"+", "-"} THEN Tail(s) ELSE s

\* digits, optionally followed by a point and digits
C20_Mantissa(s) ==
    \/ C20_Digits(s)
    \/ \E i \in 2..(Len(s) - 1) :
          s[i] = "." /\ C20_Digits(SubSeq(s, 1, i - 1)) /\ C20_Digits(SubSeq(s, i + 1, Len(s)))

\* the numeric grammar: sign, mantissa, exponent
C20_Literal(s) ==
    \/ C20_Mantissa(C20_Unsigned(s))
    \/ \E i \in 2..(Len(s) - 1) :
          /\ s[i] \in {"e", "E"}
          /\ C20_Mantissa(C20_Unsigned(SubSeq(s, 1, i - 1)))
          /\ C20_Digits(C20_Unsigned(SubSeq(s, i + 1, Len(s))))

C20_Value(s) == StringToNumber(replaceAll(s))

(***************************************************************************)
(* C20: number(s) of a string s succeeds exactly when s is a literal of    *)
(* the numeric grammar with a finite value, and then gives the value of s  *)
(* without its underscores; for every other string, the empty one          *)
(* included, the line fails with an underscore or invalid number error.    *)
(***************************************************************************)
C20_NumberParsesGrammar ==
    last.op = "assign" /\ last.e.e = "tag" /\ last.e.arg.e = "text" =>
        IF C20_Literal(C20_String) /\ ~C20_Value(C20_String).inf
        THEN last.ok /\ last.v = NumberOf(C20_Value(C20_String))
        ELSE /\ ~last.ok
             /\ err.message \in {"invalid number",
                                 "cannot have leading or trailing underscores for number",
                                 "cannot have consecutive underscores for number"}

\* `a = number("")` has been read
C20_Witness ==
    /\ last.op = "assign" /\ last.e.e = "tag" /\ last.e.arg.e = "text"
    /\ C20_String = <<>>

(***************************************************************************)
(* The lexer.  A text is a sequence of one-character strings, position     *)
(* counts the characters read.  Every reader gives the lexer after it and  *)
(* the token it made.                                                      *)
(***************************************************************************)
NoChar == ""
NoToken == [type |-> "null"]

\* the letters and digits the texts of the model are written with
Letters == {"a", "b", "d", "e", "f", "l", "m", "n", "r", "s", "t", "u", "x"}
Digits10 == {"0", "1", "2", "3", "4", "5", "6", "7", "8", "9"}

IDENTIFIER_CANDIDATE_REGEX == Letters \cup Digits10 \cup {"_", "+", "-"}
ALPHANUMERIC_REGEX == Letters \cup Digits10 \cup {"_", "-"}

Token(type, literal, row, column) ==
    [type |-> type, literal |-> literal, row |-> row, column |-> column]

currentContext(lx) == lx.contextStack[Len(lx.contextStack)]

peek(lx, n) ==
    IF lx.position + n >= Len(lx.input) THEN NoChar ELSE lx.input[lx.position + n + 1]

\* an advance that takes a carriage return for a column
AdvanceCharCountingReturn(lx) ==
    [lx EXCEPT !.row = IF peek(lx, 0) = "\n" THEN @ + 1 ELSE @,
               !.column = IF peek(lx, 0) = "\n" THEN 1 ELSE @ + 1,
               !.position = @ + 1]

\* Lexer.advance, one round of its loop
AdvanceChar(lx) ==
    [lx EXCEPT !.row = IF peek(lx, 0) = "\n" THEN @ + 1 ELSE @,
               !.column = IF peek(lx, 0) = "\n" THEN 1
                          ELSE IF peek(lx, 0) # "\r" THEN @ + 1 ELSE @,
               !.position = @ + 1]

RECURSIVE advance(_, _)
advance(lx, count) ==
    IF count = 0 \/ peek(lx, 0) = NoChar THEN lx ELSE advance(AdvanceChar(lx), count - 1)

\* new Token(type, input.substring(startPos, this.position), this.row, startCol)
Made(start, lx, type) ==
    [lx |-> lx,
     token |-> Token(type, SubSeq(lx.input, start.position + 1, lx.position), lx.row,
                     start.column)]

\* while (chars has this.peek()) this.advance()
RECURSIVE ScanWhile(_, _)
ScanWhile(lx, chars) ==
    IF peek(lx, 0) \in chars THEN ScanWhile(advance(lx, 1), chars) ELSE lx

readWhitespace(lx) == Made(lx, ScanWhile(lx, {" ", "\t"}), "WHITESPACE")

RECURSIVE ScanComment(_)
ScanComment(lx) ==
    IF peek(lx, 0) \notin {"\n", "\r", NoChar} THEN ScanComment(advance(lx, 1)) ELSE lx

readComment(lx) == Made(lx, ScanComment(lx), "COMMENT")

\* readIdentifier: the keywords are tokens of their own
IdentifierType(literal) ==
    IF literal = <<"t", "r", "u", "e">> \/ literal = <<"f", "a", "l", "s", "e">> THEN "BOOLEAN"
    ELSE IF literal = <<"n", "u", "l", "l">> THEN "NULL"
    ELSE "IDENTIFIER"

Identified(made) == [made EXCEPT !.token.type = IdentifierType(made.token.literal)]

readIdentifier(lx) == Identified(Made(lx, ScanWhile(lx, IDENTIFIER_CANDIDATE_REGEX), "IDENTIFIER"))

readVariable(lx) == Made(lx, ScanWhile(advance(lx, 1), ALPHANUMERIC_REGEX), "VARIABLE")

\* Lexer.readEscapeSequence on the lexer's fields
ReadEscape(lx) ==
    Made(lx, advance(lx, Len(readEscapeSequence(lx.input, lx.position + 1))), "ESCAPE_SEQUENCE")

\* control characters and `"`, `$`, `\`
isDisallowedChar(char) == char \in {"\n", "\t", "\r", "\"", "$", "\\"}

isAllowedChar(char, type) ==
    IF isDisallowedChar(char) THEN type = "TRIPLE" /\ char \in {"\n", "\t"} ELSE TRUE

Pushed(lx, frame) == [lx EXCEPT !.contextStack = Append(@, frame)]
Popped(lx) == [lx EXCEPT !.contextStack = SubSeq(@, 1, Len(@) - 1)]

\* readStringContent: the content read so far is a token before anything else is
ContentOr(start, lx, other) ==
    IF lx.position > start.position THEN Made(start, lx, "STRING_CONTENT") ELSE other

RECURSIVE readStringContent(_, _)
readStringContent(start, lx) ==
    IF peek(lx, 0) = NoChar \/ peek(lx, 0) = "\"" 
    THEN ContentOr(start, lx, [lx |-> lx, token |-> NoToken])
    ELSE IF peek(lx, 0) = "\\" THEN ContentOr(start, lx, ReadEscape(lx))
    ELSE IF peek(lx, 0) = "$" /\ peek(lx, 1) = "{"
    THEN ContentOr(start, lx,
             Made(lx, advance(Pushed(lx, Frame("EMBEDDED_VALUE", currentContext(lx).stringType)), 2),
                  "EMBEDDED_VALUE_START"))
    ELSE IF ~isAllowedChar(peek(lx, 0), currentContext(lx).stringType)
    THEN ContentOr(start, lx, Made(lx, advance(lx, 1), "ILLEGAL"))
    ELSE readStringContent(start, advance(lx, 1))

\* a lexer without the frame for tags
LeftParenPlain(lx) == Made(lx, advance(lx, 1), "LPAREN")

\* readToken, case "(": a frame for the tag after an identifier
LeftParen(lx) ==
    IF lx.lastToken = "IDENTIFIER"
    THEN Made(lx, advance(Pushed(lx, Frame("DEFAULT", "OFF")), 1), "LPAREN")
    ELSE Made(lx, advance(lx, 1), "LPAREN")

\* a lexer whose `)` pops whatever frame is on top
RightParenPopping(lx) == Made(lx, advance(Popped(lx), 1), "RPAREN")

\* readToken, case ")"
RightParen(lx) ==
    IF currentContext(lx).mode = "DEFAULT" /\ Len(lx.contextStack) > 1
    THEN Made(lx, advance(Popped(lx), 1), "RPAREN")
    ELSE Made(lx, advance(lx, 1), "RPAREN")

\* a lexer that takes `[` for an index only after a name
LeftBracketAfterName(lx) ==
    Made(lx, advance(lx, 1),
         IF lx.lastToken \in {"IDENTIFIER", "VARIABLE"} THEN "INDEX_LBRACKET" ELSE "LBRACKET")

\* readToken, case "["
LeftBracket(lx) ==
    Made(lx, advance(lx, 1),
         IF lx.lastToken \in {"IDENTIFIER", "VARIABLE", "RBRACKET"} THEN "INDEX_LBRACKET"
         ELSE "LBRACKET")

\* readToken, case "}"
RightBrace(lx) ==
    IF currentContext(lx).mode = "EMBEDDED_VALUE"
    THEN IF Len(lx.contextStack) <= 1 THEN Made(lx, advance(lx, 1), "ILLEGAL")
         ELSE Made(lx, Popped(advance(lx, 1)), "RBRACE")
    ELSE Made(lx, advance(lx, 1), "RBRACE")

\* readToken, case '"'
isTripleQuote(lx) == peek(lx, 1) = "\"" /\ peek(lx, 2) = "\""

QuoteFrame(lx) ==
    IF currentContext(lx).mode = "STRING" THEN Popped(lx)
    ELSE Pushed(lx, Frame("STRING", IF isTripleQuote(lx) THEN "TRIPLE" ELSE "DOUBLE"))

ReadQuote(lx) ==
    Made(lx, advance(QuoteFrame(lx), IF isTripleQuote(lx) THEN 3 ELSE 1),
         IF isTripleQuote(lx) THEN "TRIPLE_QUOTE" ELSE "DOUBLE_QUOTE")

\* readToken, the switch over the character
ReadChar(lx, char) ==
    IF char \in {" ", "\t"} THEN readWhitespace(lx)
    ELSE IF char = "/"
    THEN (IF peek(lx, 1) = "/" THEN readComment(lx) ELSE Made(lx, advance(lx, 1), "ILLEGAL"))
    ELSE IF char = "=" THEN Made(lx, advance(lx, 1), "ASSIGN")
    ELSE IF char = "<"
    THEN (IF peek(lx, 1) = "<" THEN Made(lx, advance(lx, 2), "APPEND")
          ELSE Made(lx, advance(lx, 1), "ILLEGAL"))
    ELSE IF char = "." THEN Made(lx, advance(lx, 1), "DOT")
    ELSE IF char = "(" THEN LeftParen(lx)
    ELSE IF char = ")" THEN RightParen(lx)
    ELSE IF char = "[" THEN LeftBracket(lx)
    ELSE IF char = "]" THEN Made(lx, advance(lx, 1), "RBRACKET")
    ELSE IF char = "$"
    THEN (IF peek(lx, 1) \in ALPHANUMERIC_REGEX THEN readVariable(lx)
          ELSE Made(lx, advance(lx, 1), "ILLEGAL"))
    ELSE IF char = "{" THEN Made(lx, advance(lx, 1), "LBRACE")
    ELSE IF char = "}" THEN RightBrace(lx)
    ELSE IF char = "," THEN Made(lx, advance(lx, 1), "COMMA")
    ELSE IF char = "\n" THEN Made(lx, advance(lx, 1), "NEWLINE")
    ELSE IF char = "\r"
    THEN (IF peek(lx, 1) = "\n" THEN Made(lx, advance(lx, 2), "NEWLINE")
          ELSE Made(lx, advance(lx, 1), "ILLEGAL"))
    ELSE IF char = "\"" THEN ReadQuote(lx)
    ELSE IF char \in IDENTIFIER_CANDIDATE_REGEX THEN readIdentifier(lx)
    ELSE Made(lx, advance(lx, 1), "ILLEGAL")

readToken(lx) ==
    IF peek(lx, 0) = NoChar THEN Made(lx, lx, "EOF")
    ELSE IF currentContext(lx).mode = "STRING" /\ readStringContent(lx, lx).token # NoToken
    THEN readStringContent(lx, lx)
    ELSE ReadChar(lx, peek(lx, 0))

\* Lexer.next and the loop of tokenize that keeps the token
Kept(lx, made) ==
    [made.lx EXCEPT !.lastToken = made.token.type,
                    !.tokens = Append(@, made.token),
                    !.pre = [position |-> lx.position, column |-> lx.column, row |-> lx.row,
                             contextStack |-> lx.contextStack, lastToken |-> lx.lastToken]]

next(lx) == Kept(lx, readToken(lx))

\* a tokenize that reads on after the EOF token
TokenizingPastEnd == Len(lexer.tokens) <= Len(lexer.input) + 1

\* tokenize has not yet read the EOF token
Tokenizing == lexer.lastToken # "EOF"

\* tokenize, one round: the next token is read and kept
LexNext ==
    /\ Tokenizing
    /\ lexer' = next(lexer)
    /\ UNCHANGED <<heap, result, scopes, blocks, status, err, out, exportedVariables,
                   options, resolvers, builtIn, parses, lines, history, last, run>>

\* the texts of at most n characters over an alphabet
RECURSIVE Texts(_, _)
Texts(alphabet, n) ==
    IF n = 0 THEN {<<>>}
    ELSE Texts(alphabet, n - 1) \cup
         {Append(p, c) : p \in {q \in Texts(alphabet, n - 1) : Len(q) = n - 1}, c \in alphabet}

\* a lexer is constructed for one of the texts
InitLexer(inputs) ==
    InitParser /\ lexer \in {NewLexer(input) : input \in inputs} /\ run = NoRun

(***************************************************************************)
(* SpecBracket: the lexer on texts of names, brackets, white space and     *)
(* quotes.                                                                 *)
(***************************************************************************)
BracketChars == {"[", "]", "a", "$", " ", "\n", "\""}

NextBracket == LexNext

SpecBracket == InitLexer(Texts(BracketChars, MaxBracketLen)) /\ [][NextBracket]_vars

\* the token made last, and the type of the one made before it
C22_Token == lexer.tokens[Len(lexer.tokens)]

C22_Before ==
    IF Len(lexer.tokens) = 1 THEN "null" ELSE lexer.tokens[Len(lexer.tokens) - 1].type

\* the last token was read at a `[` outside a string
C22_AtBracket ==
    /\ lexer.tokens # <<>>
    /\ lexer.pre.contextStack[Len(lexer.pre.contextStack)].mode # "STRING"
    /\ lexer.pre.position < Len(lexer.input)
    /\ lexer.input[lexer.pre.position + 1] = "["

(***************************************************************************)
(* C22: a `[` outside a string is the token INDEX_LBRACKET when the token  *)
(* made just before it, whatever its kind, is IDENTIFIER, VARIABLE or      *)
(* RBRACKET, and LBRACKET otherwise, also as the first token.              *)
(***************************************************************************)
C22_IndexBracketAfterName ==
    C22_AtBracket =>
        /\ C22_Token.literal = <<"[">>
        /\ C22_Token.type = IF C22_Before \in {"IDENTIFIER", "VARIABLE", "RBRACKET"}
                            THEN "INDEX_LBRACKET" ELSE "LBRACKET"

\* `a[][` : the second `[` follows a `]`
C22_Witness ==
    /\ C22_AtBracket
    /\ C22_Before = "RBRACKET"
    /\ C22_Token.type = "INDEX_LBRACKET"

(***************************************************************************)
(* SpecPosition: the lexer on texts with line ends, strings and escapes.   *)
(***************************************************************************)
PositionChars == {"a", " ", "\n", "\r", "\"", "\\"}

NextPosition == LexNext

SpecPosition == InitLexer(Texts(PositionChars, MaxPositionLen)) /\ [][NextPosition]_vars

\* the row and the column of the character after the first p characters of the input
C23_Row(p) == 1 + Cardinality({i \in 1..p : lexer.input[i] = "\n"})

C23_LineStart(p) ==
    IF \E i \in 1..p : lexer.input[i] = "\n"
    THEN CHOOSE i \in 1..p : lexer.input[i] = "\n" /\ \A j \in (i + 1)..p : lexer.input[j] # "\n"
    ELSE 0

C23_Column(p) == 1 + Cardinality({i \in (C23_LineStart(p) + 1)..p : lexer.input[i] # "\r"})

C23_Token == lexer.tokens[Len(lexer.tokens)]

\* as stated: row and column of a token are those of its first character
C23_TokenStartsAtRowColumn ==
    lexer.tokens # <<>> =>
        /\ C23_Token.column = C23_Column(lexer.pre.position)
        /\ C23_Token.row = C23_Row(lexer.pre.position)

(***************************************************************************)
(* C23: every token carries the column of its first character and the row  *)
(* the lexer is on once the token is read, both counted from one: the row  *)
(* of the token's first character when the token holds no line feed, the   *)
(* row after its last line feed when it holds one (NEWLINE tokens, content *)
(* of a triple quoted string, an escape or an illegal character that is a  *)
(* line feed).                                                             *)
(***************************************************************************)
C23_TokenRowAfterColumnBefore ==
    lexer.tokens # <<>> =>
        /\ C23_Token.column = C23_Column(lexer.pre.position)
        /\ C23_Token.row = C23_Row(lexer.position)
        /\ C23_Token.row >= 1 /\ C23_Token.column >= 1

\* a NEWLINE token has been read after a name: `a`, line feed
C23_Witness ==
    /\ Len(lexer.tokens) = 2
    /\ C23_Token.type = "NEWLINE"
    /\ C23_Token.row = 2 /\ C23_Token.column = 2

(***************************************************************************)
(* SpecQuote: the lexer on texts of quotes, a letter and line feeds.       *)
(***************************************************************************)
QuoteChars == {"\"", "a", "\n"}

NextQuote == LexNext

SpecQuote == InitLexer(Texts(QuoteChars, MaxQuoteLen)) /\ [][NextQuote]_vars

\* the frame on top of the stack before the last token was read
C25_Top == lexer.pre.contextStack[Len(lexer.pre.contextStack)]

\* the last token took a string frame off the stack
C25_Closed ==
    /\ lexer.tokens # <<>>
    /\ C25_Top.mode = "STRING"
    /\ lexer.contextStack = SubSeq(lexer.pre.contextStack, 1, Len(lexer.pre.contextStack) - 1)

(***************************************************************************)
(* C25: a string frame is taken off the stack only by the quote token of   *)
(* its own kind, a frame of a `"` string by DOUBLE_QUOTE and a frame of a  *)
(* `"""` string by TRIPLE_QUOTE.                                           *)
(***************************************************************************)
C25_StringClosedByMatchingQuote ==
    C25_Closed =>
        lexer.tokens[Len(lexer.tokens)].type =
            IF C25_Top.stringType = "TRIPLE" THEN "TRIPLE_QUOTE" ELSE "DOUBLE_QUOTE"

\* `"""a"` : the string was opened by `"""` and a single `"` follows its content
C25_Witness ==
    /\ C25_Closed
    /\ C25_Top.stringType = "TRIPLE"
    /\ lexer.input = <<"\"", "\"", "\"", "a", "\"">>

(***************************************************************************)
(* SpecTag: the lexer on strings that start with `"${t(`.                  *)
(***************************************************************************)
TagChars == {"t", "(", ")", "{", "}", "\""}

TagStart == <<"\"", "$", "{", "t", "(">>

NextTag == LexNext

SpecTag == InitLexer({TagStart \o body : body \in Texts(TagChars, MaxTagLen)})
              /\ [][NextTag]_vars

\* the frames below the tag's: the document, the string and the embedded expression
C26_Embedded ==
    <<Frame("DEFAULT", "OFF"), Frame("STRING", "DOUBLE"), Frame("EMBEDDED_VALUE", "DOUBLE")>>

\* how many `(` tokens are open after the first n tokens; the tag's `(` is the fourth
C26_Depth(n) ==
    Cardinality({k \in 4..n : lexer.tokens[k].type = "LPAREN"})
    - Cardinality({k \in 4..n : lexer.tokens[k].type = "RPAREN"})

\* the `)` that matches the tag's `(` is not among the first n tokens
C26_Inside(n) == n >= 4 /\ \A k \in 4..n : C26_Depth(k) > 0

\* the last token was read at a `}` outside a string
C26_AtBrace ==
    /\ lexer.tokens # <<>>
    /\ lexer.pre.contextStack[Len(lexer.pre.contextStack)].mode # "STRING"
    /\ lexer.pre.position < Len(lexer.input)
    /\ lexer.input[lexer.pre.position + 1] = "}"

C26_Last == lexer.tokens[Len(lexer.tokens)]

\* inside the tag the embedded expression's frame stays and a `}` is an RBRACE;
\* the matching `)` leaves that frame on top; the `}` after it takes it off
C26_Kept(n) ==
    /\ C26_Inside(n) =>
          /\ Len(lexer.contextStack) > 3
          /\ SubSeq(lexer.contextStack, 1, 3) = C26_Embedded
          /\ C26_AtBrace => C26_Last.type = "RBRACE"
    /\ C26_Inside(n - 1) /\ ~C26_Inside(n) => lexer.contextStack = C26_Embedded
    /\ n > 5 /\ C26_Inside(n - 2) /\ ~C26_Inside(n - 1) /\ C26_AtBrace =>
          /\ C26_Last.type = "RBRACE"
          /\ lexer.contextStack = SubSeq(C26_Embedded, 1, 2)

C26_TagsOnly(n) ==
    \A k \in 5..n :
        /\ lexer.tokens[k].type = "LPAREN" => lexer.tokens[k - 1].type = "IDENTIFIER"
        /\ C26_Inside(k) => lexer.tokens[k].type \notin {"DOUBLE_QUOTE", "TRIPLE_QUOTE"}

\* the frame of a tag is on top of the stack and the last token was read at a `}`
C26_UnderMarker ==
    /\ lexer.tokens # <<>>
    /\ Len(lexer.pre.contextStack) > 1
    /\ lexer.pre.contextStack[Len(lexer.pre.contextStack)].mode = "DEFAULT"
    /\ lexer.pre.position < Len(lexer.input)
    /\ lexer.input[lexer.pre.position + 1] = "}"

ContextChars == {"(", ")", "{", "}", "\"", "$", "u", "\\"}

NextContext == LexNext

SpecContext == InitLexer(Texts(ContextChars, MaxContextLen)) /\ [][NextContext]_vars

\* the types of the tokens that close a frame of a mode
C28_Closing(mode) ==
    IF mode = "STRING" THEN {"DOUBLE_QUOTE", "TRIPLE_QUOTE"}
    ELSE IF mode = "EMBEDDED_VALUE" THEN {"RBRACE"}
    ELSE {"RPAREN"}

\* the last call of next took frames off the stack
C28_Pops == Len(lexer.contextStack) < Len(lexer.pre.contextStack)

TokenizeChars == {"\"", "$", "{", "}", "\\", "u"}

NextTokenize == LexNext

SpecTokenize ==
    /\ InitLexer(Texts(TokenizeChars, MaxTokenizeLen))
    /\ [][NextTokenize]_vars
    /\ WF_vars(NextTokenize)

\* the last call of next returned EOF at the end of the input or consumed a character;
\* no token before the last one is an EOF
C29_Progress ==
    /\ lexer.tokens # <<>> =>
          IF lexer.tokens[Len(lexer.tokens)].type = "EOF"
          THEN lexer.position = Len(lexer.input) /\ lexer.pre.position = lexer.position
          ELSE lexer.position > lexer.pre.position /\ lexer.position <= Len(lexer.input)
    /\ \A k \in 1..(Len(lexer.tokens) - 1) : lexer.tokens[k].type # "EOF"

\* tokenize has returned: the list ends with its EOF token
C29_Ended ==
    /\ ~Tokenizing
    /\ lexer.tokens # <<>>
    /\ lexer.tokens[Len(lexer.tokens)].type = "EOF"

(***************************************************************************)
(* C29: every call of next returns EOF or consumes at least one character, *)
(* no token but the last is an EOF, and tokenize comes to its end with a   *)
(* list that ends with EOF.                                                *)
(***************************************************************************)
C29_TokenizeTerminates == [](C29_Progress) /\ <>[](C29_Ended /\ C29_Progress)

\* tokenize has returned for a string that ends in the middle of a unicode escape
C29_Witness ==
    /\ lexer.input = <<"\"", "\\", "u">>
    /\ C29_Ended
    /\ Len(lexer.tokens) = 3
    /\ lexer.tokens[2].type = "ESCAPE_SEQUENCE"

(***************************************************************************)
(* parse.js: keys read from the tokens of a text                           *)
(***************************************************************************)
\* Parser constructor: the tokens without comments and white space, at the first one
TokenParser(tokens) ==
    [tokens |-> SelectSeq(tokens, LAMBDA t : t.type \notin {"COMMENT", "WHITESPACE"}),
     pos |-> 0]

\* this.currToken: peek() never passes the last token
currToken(k) == k.tokens[IF k.pos >= Len(k.tokens) THEN Len(k.tokens) ELSE k.pos + 1]

AdvanceToken(k) == [k EXCEPT !.pos = @ + 1]

\* a text as the string it is
RECURSIVE Concat(_)
Concat(chars) == IF chars = <<>> THEN "" ELSE chars[1] \o Concat(Tail(chars))

KeyOk(k, v) == [ok |-> TRUE, k |-> k, v |-> v, msg |-> ""]
KeyThrow(k, msg) == [ok |-> FALSE, k |-> k, v |-> <<>>, msg |-> msg]

\* parseKeyLiteral; a quoted key is not among the texts keys are read from here
parseKeyLiteral(k) ==
    IF currToken(k).literal = <<>>
    THEN KeyThrow(k, "The literal should not be null when parsing a key part")
    ELSE IF currToken(k).type = "VARIABLE"
    THEN KeyOk(AdvanceToken(k), VarPart(Concat(currToken(k).literal)))
    ELSE IF currToken(k).type = "IDENTIFIER"
    THEN (IF \E i \in DOMAIN currToken(k).literal : currToken(k).literal[i] = "+"
          THEN KeyThrow(k, "Not an actual alphanumeric key")
          ELSE KeyOk(AdvanceToken(k), Part(Concat(currToken(k).literal))))
    ELSE KeyThrow(k, "Unexpected key type")

\* parseNumber at an index: { type, value } of the IDENTIFIER and a fraction after it
IndexFraction(k, literal) ==
    IF currToken(AdvanceToken(k)).type # "IDENTIFIER" THEN KeyThrow(k, "Invalid float")
    ELSE KeyOk(AdvanceToken(AdvanceToken(k)),
               [type |-> "float",
                value |-> validateAndParseNumber(<<>>, literal \o <<".">>
                                                    \o currToken(AdvanceToken(k)).literal)])

parseNumber(k) ==
    IF currToken(k).type # "IDENTIFIER" THEN KeyThrow(k, "Expected IDENTIFIER token")
    ELSE IF currToken(AdvanceToken(k)).type = "DOT"
    THEN IndexFraction(AdvanceToken(k), currToken(k).literal)
    ELSE KeyOk(AdvanceToken(k),
               [type |-> IF \E i \in DOMAIN currToken(k).literal :
                                currToken(k).literal[i] \in {"e", "E"}
                         THEN "float" ELSE "integer",
                value |-> validateAndParseNumber(<<>>, currToken(k).literal)])

\* parseArrayIndex, after the number
IndexOf(number) ==
    IF ~number.v.value.ok THEN KeyThrow(number.k, number.v.value.msg)
    ELSE IF number.v.type = "float" THEN KeyThrow(number.k, "Index cannot be a float")
    ELSE IF number.v.value.v.n < 0 THEN KeyThrow(number.k, "Cannot have negative index number")
    ELSE IF currToken(number.k).type # "RBRACKET"
    THEN KeyThrow(number.k, "Expected closing bracket ']'")
    ELSE KeyOk(AdvanceToken(number.k), number.v.value.v.n)

parseArrayIndex(k) ==
    IF currToken(AdvanceToken(k)).type # "IDENTIFIER"
    THEN KeyThrow(k, "Expected index number inside brackets")
    ELSE IF ~parseNumber(AdvanceToken(k)).ok THEN parseNumber(AdvanceToken(k))
    ELSE IndexOf(parseNumber(AdvanceToken(k)))

\* parseKeySegment, the loop over the indexes after a key
RECURSIVE SegmentIndexes(_, _, _)
SegmentIndexes(k, parts, currentPart) ==
    IF currToken(k).type # "INDEX_LBRACKET" THEN KeyOk(k, Append(parts, currentPart))
    ELSE IF ~parseArrayIndex(k).ok THEN parseArrayIndex(k)
    ELSE IF currentPart.index = NoIndex
    THEN SegmentIndexes(parseArrayIndex(k).k, parts,
                        [currentPart EXCEPT !.index = parseArrayIndex(k).v])
    ELSE SegmentIndexes(parseArrayIndex(k).k, Append(parts, currentPart),
                        IndexPart(parseArrayIndex(k).v))

parseKeySegment(k) ==
    IF ~parseKeyLiteral(k).ok THEN parseKeyLiteral(k)
    ELSE SegmentIndexes(parseKeyLiteral(k).k, <<>>, parseKeyLiteral(k).v)

\* parseKey, the loop over the segments after a dot
RECURSIVE KeySegments(_, _)
KeySegments(k, parts) ==
    IF currToken(k).type # "DOT" THEN KeyOk(k, parts)
    ELSE IF ~parseKeySegment(AdvanceToken(k)).ok THEN parseKeySegment(AdvanceToken(k))
    ELSE IF \E i \in DOMAIN parseKeySegment(AdvanceToken(k)).v :
                parseKeySegment(AdvanceToken(k)).v[i].type = "variable"
    THEN KeyThrow(parseKeySegment(AdvanceToken(k)).k,
                  "Cannot have a variable key in a nested key")
    ELSE KeySegments(parseKeySegment(AdvanceToken(k)).k,
                     parts \o parseKeySegment(AdvanceToken(k)).v)

parseKey(k) ==
    IF ~parseKeySegment(k).ok THEN parseKeySegment(k)
    ELSE KeySegments(parseKeySegment(k).k, parseKeySegment(k).v)

(***************************************************************************)
(* SpecKey: a text of letters, digits, dots and brackets is tokenized, a   *)
(* key path is parsed from its tokens and serialized.                      *)
(***************************************************************************)
KeyChars == {"a", "0", "1", ".", "[", "]"}

\* new Parser(text).parseKey() and, for the key path it returns, serialize()
Serialized(text, key) ==
    [op |-> "parseKey", text |-> text, ok |-> key.ok,
     whole |-> key.ok /\ currToken(key.k).type = "EOF",
     parts |-> key.v,
     serialized |-> IF key.ok THEN serialize(key.v) ELSE ""]

ParseKey ==
    /\ ~Tokenizing
    /\ last.op = "none"
    /\ last' = Serialized(Concat(lexer.input), parseKey(TokenParser(lexer.tokens)))
    /\ UNCHANGED <<heap, result, scopes, blocks, status, err, out, exportedVariables,
                   setup, lines, history>>

NextKeyPath == LexNext \/ ParseKey

SpecKeyPath == InitLexer(Texts(KeyChars, MaxKeyLen)) /\ [][NextKeyPath]_vars

\* a valid key path without white space: names joined by `.`, each followed by any
\* number of `[N]`; a name starts with a letter, N is 0 or starts with another digit
RECURSIVE C21_ValidFrom(_, _, _)
C21_ValidFrom(text, i, at) ==
    IF i > Len(text) THEN at \in {"name", "closed"}
    ELSE IF at = "start" THEN text[i] \in Letters /\ C21_ValidFrom(text, i + 1, "name")
    ELSE IF at = "name"
    THEN \/ text[i] \in Letters \cup Digits10 /\ C21_ValidFrom(text, i + 1, "name")
         \/ text[i] = "." /\ C21_ValidFrom(text, i + 1, "start")
         \/ text[i] = "[" /\ C21_ValidFrom(text, i + 1, "open")
    ELSE IF at = "open"
    THEN \/ text[i] = "0" /\ C21_ValidFrom(text, i + 1, "zero")
         \/ text[i] \in Digits10 \ {"0"} /\ C21_ValidFrom(text, i + 1, "index")
    ELSE IF at = "index"
    THEN \/ text[i] \in Digits10 /\ C21_ValidFrom(text, i + 1, "index")
         \/ text[i] = "]" /\ C21_ValidFrom(text, i + 1, "closed")
    ELSE IF at = "zero" THEN text[i] = "]" /\ C21_ValidFrom(text, i + 1, "closed")
    ELSE \/ text[i] = "." /\ C21_ValidFrom(text, i + 1, "start")
         \/ text[i] = "[" /\ C21_ValidFrom(text, i + 1, "open")

C21_Valid(text) == C21_ValidFrom(text, 1, "start")

\* a key path has been parsed from a valid text
C21_Parsed == last.op = "parseKey" /\ C21_Valid(lexer.input)

(***************************************************************************)
(* C21: the key path parsed from a valid key-path text without white space *)
(* takes the whole text and serializes to that text.                       *)
(***************************************************************************)
C21_SerializeInvertsParseKey ==
    C21_Parsed => last.whole /\ last.serialized = last.text

\* the same for the valid texts that hold no index
C21_NamesRoundTrip ==
    C21_Parsed /\ (\A i \in DOMAIN lexer.input : lexer.input[i] # "[")
        => last.whole /\ last.serialized = last.text

\* `a[0]` has been parsed to the key a with the index 0, and serialized to `a`
C21_Witness ==
    /\ C21_Parsed
    /\ last.text = "a[0]"
    /\ last.whole
    /\ last.parts = <<PartAt("a", 0)>>
    /\ last.serialized = "a"

(***************************************************************************)
(* SpecSet: statements whose resolver calls context.declareVariable with   *)
(* any combination of scope, override, export and exportOnly.              *)
(***************************************************************************)
SetNames == {"$a", "x"}

AllSetArgs == {SetArgs(scope, override, export, exportOnly) :
                  scope \in {"current", "root"}, override \in BOOLEAN,
                  export \in BOOLEAN, exportOnly \in BOOLEAN}

NextSet ==
    \/ lines < MaxSetLines /\ AssignLine(kVarA, "assign", Lit(Num(3)))
    \/ lines < MaxSetLines /\ \E name \in SetNames, args \in AllSetArgs :
          DeclareLine(kInclude, name, Num(4), args)
    \/ lines < MaxSetLines /\ OpenObject(kB, "object-shorthand")
    \/ CloseObject
    \/ EndOfInput

SpecSet == Init /\ [][NextSet]_vars

(***************************************************************************)
(* C27: a call of variables.set that returns false leaves every scope and  *)
(* the exported variables as they were before the call, whatever its       *)
(* scope, override, export and exportOnly arguments are.                   *)
(***************************************************************************)
C27_SetIsAtomicOnFailure ==
    last.op = "declare" /\ ~last.success =>
        heap = last.pre /\ exportedVariables = last.exported

\* an exporting call for a name that is exported but not bound in the current scope
\* has returned false after binding the name in the scope
C27_Witness ==
    /\ last.op = "declare"
    /\ ~last.success
    /\ last.name = "$a"
    /\ last.args = SetArgs("current", FALSE, TRUE, FALSE)
    /\ GetProp(last.pre, scopes[Len(scopes)], StrKey("$a")) = Undef
    /\ GetProp(heap, scopes[Len(scopes)], StrKey("$a")) = Num(4)
    /\ exportedVariables = last.exported
    /\ "$a" \in DOMAIN exportedVariables

(***************************************************************************)
(* parse.js over tokens, with resolvers that return promises.  A run is    *)
(* the parsers under way, the innermost last (context.parse makes a new    *)
(* one), the promises of the resolvers called and not yet settled, and the *)
(* values stored.  Of the parsers under way the innermost MaxNesting are   *)
(* kept, `outer` telling that there are more around them.  The texts hold  *)
(* assignments of numbers, strings and tags of one argument, and           *)
(* statements of numbers and strings.                                      *)
(***************************************************************************)
\* tokenize(input)
RECURSIVE TokensOf(_)
TokensOf(lx) ==
    IF lx.lastToken = "EOF" THEN lx.tokens
    ELSE CHOOSE tokens \in {TokensOf(after) : after \in {next(lx)}} : TRUE

tokenize(input) == TokensOf(NewLexer(input))

\* new Parser(input), for the text of a file, given the tokens tokenize makes of it
FileParser(file, tokens) == [file |-> file, k |-> TokenParser(tokens)]

\* a resolver has been called at a token position; its promise is pending
Call(kind, name, at, arg) == [kind |-> kind, name |-> name, at |-> at, arg |-> arg]

Promise(name) == [t |-> "promise", name |-> name]

Got(k, v, calls) == [ok |-> TRUE, k |-> k, v |-> v, msg |-> "", calls |-> calls]
Threw(k, msg, calls) == [ok |-> FALSE, k |-> k, v |-> Undef, msg |-> msg, calls |-> calls]

looksLikeNumber(token) ==
    token.literal # <<>> /\ token.literal[1] \in Digits10 \cup {"-", "+"}

isTag(k) ==
    /\ currToken(k).type = "IDENTIFIER"
    /\ \A i \in DOMAIN currToken(k).literal : currToken(k).literal[i] # "+"
    /\ currToken(AdvanceToken(k)).type = "LPAREN"

\* parseValue, `return this.parseNumber().value`
NumberRead(number) ==
    IF ~number.ok THEN Threw(number.k, number.msg, <<>>)
    ELSE IF ~number.v.value.ok THEN Threw(number.k, number.v.value.msg, <<>>)
    ELSE Got(number.k, number.v.value.v, <<>>)

\* parseString for a string of plain content
ReadString(k) ==
    IF currToken(AdvanceToken(k)).type = "DOUBLE_QUOTE"
    THEN Got(AdvanceToken(AdvanceToken(k)), Str(""), <<>>)
    ELSE IF /\ currToken(AdvanceToken(k)).type = "STRING_CONTENT"
            /\ currToken(AdvanceToken(AdvanceToken(k))).type = "DOUBLE_QUOTE"
    THEN Got(AdvanceToken(AdvanceToken(AdvanceToken(k))),
             Str(Concat(currToken(AdvanceToken(k)).literal)), <<>>)
    ELSE Threw(AdvanceToken(k), "Unexpected token in string", <<>>)

\* parseValue for a value that is not a tag
ReadPlain(k, allowBareIdents) ==
    IF currToken(k).type = "IDENTIFIER"
    THEN (IF looksLikeNumber(currToken(k))
          THEN CHOOSE read \in {NumberRead(number) : number \in {parseNumber(k)}} : TRUE
          ELSE IF allowBareIdents
          THEN Got(AdvanceToken(k), Str(Concat(currToken(k).literal)), <<>>)
          ELSE Threw(k, "Unexpected identifier in value position.", <<>>))
    ELSE IF currToken(k).type = "DOUBLE_QUOTE" THEN ReadString(k)
    ELSE Threw(k, "Unexpected token", <<>>)

\* parseTag from `const resolver = this.tagResolvers.get(tagName)` on: the resolver is
\* called and not awaited, `)` is asked for and consumed, the promise is returned
TagEnd(name, value, tags) ==
    IF ~value.ok THEN value
    ELSE IF currToken(value.k).type # "RPAREN"
    THEN Threw(value.k, "Expected opening brace ')' for tag",
               IF name \in tags THEN <<Call("tag", name, value.k.pos, value.v)>> ELSE <<>>)
    ELSE IF name \in tags
    THEN Got(AdvanceToken(value.k), Promise(name),
             <<Call("tag", name, value.k.pos, value.v)>>)
    ELSE Got(AdvanceToken(value.k), [t |-> "tag", name |-> name, arg |-> value.v], <<>>)

\* parseTag
ReadTag(k, tags) ==
    IF currToken(k).literal = <<>> THEN Threw(k, "Unexpected empty tag name", <<>>)
    ELSE IF currToken(AdvanceToken(k)).type # "LPAREN"
    THEN Threw(AdvanceToken(k), "Expected opening brace '(' for tag", <<>>)
    ELSE CHOOSE read \in {TagEnd(Concat(currToken(k).literal), value, tags) :
                             value \in {ReadPlain(AdvanceToken(AdvanceToken(k)), TRUE)}} : TRUE

\* parseValue
ReadValue(k, allowBareIdents, tags) ==
    IF isTag(k) THEN ReadTag(k, tags) ELSE ReadPlain(k, allowBareIdents)

\* parseStatementArgs
RECURSIVE ReadArgs(_, _)
ArgRead(values, parsed) ==
    IF ~parsed.ok THEN parsed ELSE ReadArgs(parsed.k, Append(values, parsed.v))

ReadArgs(k, values) ==
    IF currToken(k).type \in {"NEWLINE", "EOF", "COMMA"} THEN Got(k, values, <<>>)
    ELSE CHOOSE read \in {ArgRead(values, parsed) : parsed \in {ReadPlain(k, TRUE)}} : TRUE

\* parseOperator at the root
ReadOperator(k) ==
    IF currToken(k).type = "APPEND" THEN Got(AdvanceToken(k), "append", <<>>)
    ELSE IF currToken(k).type = "ASSIGN" THEN Got(AdvanceToken(k), "assign", <<>>)
    ELSE IF currToken(k).type = "LBRACE" THEN Got(k, "object-shorthand", <<>>)
    ELSE IF currToken(k).type \in {"NEWLINE", "EOF"} THEN Got(k, "true-shorthand", <<>>)
    ELSE IF currToken(k).type \in {"IDENTIFIER", "BOOLEAN", "NULL", "LBRACKET",
                                   "DOUBLE_QUOTE", "TRIPLE_QUOTE"}
    THEN Got(k, "statement", <<>>)
    ELSE Threw(k, "Unexpected token as operator", <<>>)

\* parseBlock, `while (this.currToken.type === TokenType.NEWLINE) this.advance()`
RECURSIVE SkipNewlines(_)
SkipNewlines(k) ==
    IF currToken(k).type = "NEWLINE" THEN SkipNewlines(AdvanceToken(k)) ELSE k

\* the resolvers given to parse in its options; context.parse constructs its
\* parser without options
RunTags == {"t"}
RunStatements == {"s"}

Outermost(r) == Len(r.stack) = 1 /\ ~r.outer

TagsOf(r) == IF Outermost(r) THEN RunTags ELSE {}
StatementsOf(r) == (IF Outermost(r) THEN RunStatements ELSE {}) \cup {"extends"}

Top(r) == r.stack[Len(r.stack)]

At(r, k) == [r EXCEPT !.stack[Len(r.stack)].k = k]

\* a promise pending for the parser that is `depth` deep
Pending(depth, call) == [call EXCEPT !.kind = call.kind] @@ [depth |-> depth]

Failed(r, k, msg, calls) ==
    [At(r, k) EXCEPT !.state = "failed", !.msg = msg,
                     !.pending = @ \o [i \in DOMAIN calls |-> Pending(Len(r.stack), calls[i])]]

Store(r, k, key, value) ==
    [At(r, k) EXCEPT !.stored = Append(@, [depth |-> Len(r.stack), key |-> key,
                                            value |-> value])]

\* `await` of a promise: the parser goes on when the promise is settled
Await(r, k, key, calls) ==
    [At(r, k) EXCEPT !.state = "awaiting", !.target = key,
                     !.pending = @ \o [i \in DOMAIN calls |-> Pending(Len(r.stack), calls[i])]]

\* parseBlock, operator "assign": `parent[keyToUse] = await this.parseValue({})`
Assigned(r, key, value) ==
    IF ~value.ok THEN Failed(r, value.k, value.msg, value.calls)
    ELSE IF value.calls # <<>> THEN Await(r, value.k, key, value.calls)
    ELSE Store(r, value.k, key, value.v)

\* parseBlock, operator "statement": resolveStatement awaits the resolver if there is one
Stated(r, key, args) ==
    IF ~args.ok THEN Failed(r, args.k, args.msg, <<>>)
    ELSE IF key \in StatementsOf(r)
    THEN Await(r, args.k, key,
               <<Call(IF key = "extends" THEN "extends" ELSE "statement", key, args.k.pos,
                      args.v)>>)
    ELSE Store(r, args.k, key, args.v)

\* parseBlock, what is read after the operator: a value or the arguments of a statement
Operand(r, operator) ==
    IF ~operator.ok THEN operator
    ELSE IF operator.v \in {"assign", "append"}
    THEN ReadValue(operator.k, FALSE, TagsOf(r))
    ELSE IF operator.v = "statement" THEN ReadArgs(operator.k, <<>>)
    ELSE operator

\* parseBlock, after the operator
Operated(r, key, operator, operand) ==
    IF ~operator.ok THEN Failed(r, operator.k, operator.msg, <<>>)
    ELSE IF operator.v \in {"assign", "append"} THEN Assigned(r, key, operand)
    ELSE IF operator.v = "true-shorthand" THEN Store(r, operator.k, key, Bool(TRUE))
    ELSE IF operator.v = "statement" THEN Stated(r, key, operand)
    ELSE Failed(r, operator.k, "Unexpected token", <<>>)

\* a round of parseBlock in the innermost parser, up to the next `await` of a resolver
RunLine ==
    /\ run.state = "running"
    /\ \E k \in {SkipNewlines(Top(run).k)} :
          /\ currToken(k).type # "EOF"
          /\ \E key \in {parseKey(k)} :
                IF ~key.ok THEN run' = Failed(run, key.k, key.msg, <<>>)
                ELSE \E operator \in {ReadOperator(key.k)} :
                     \E operand \in {Operand(run, operator)} :
                         run' = Operated(run, key.v[1].key, operator, operand)
    /\ UNCHANGED <<heap, result, scopes, blocks, status, err, out, exportedVariables,
                   options, resolvers, builtIn, parses, lines, history, last, lexer>>

\* the promise of a resolver of the options is settled
Settled(r, fulfilled) ==
    IF r.state = "failed" THEN [r EXCEPT !.pending = Tail(@)]
    ELSE IF fulfilled
    THEN [Store(r, Top(r).k, r.target, [t |-> "settled", name |-> r.pending[1].name])
            EXCEPT !.state = "running", !.pending = Tail(@)]
    ELSE [r EXCEPT !.state = "failed", !.msg = "rejected", !.pending = Tail(@)]

Settle ==
    /\ run.state \in {"awaiting", "failed"}
    /\ run.pending # <<>>
    /\ run.pending[Len(run.pending)].kind # "extends"
    /\ \E fulfilled \in BOOLEAN : run' = Settled(run, fulfilled)
    /\ UNCHANGED <<heap, result, scopes, blocks, status, err, out, exportedVariables,
                   options, resolvers, builtIn, parses, lines, history, last, lexer>>

\* the outermost parser kept is left out, with its promise and the values it stored
Inner(r) ==
    [r EXCEPT !.outer = TRUE,
              !.stack = Tail(@),
              !.pending = [i \in 1..(Len(@) - 1) |-> [@[i + 1] EXCEPT !.depth = @ - 1]],
              !.stored = [i \in DOMAIN SelectSeq(@, LAMBDA v : v.depth > 1) |->
                             [SelectSeq(@, LAMBDA v : v.depth > 1)[i] EXCEPT !.depth = @ - 1]]]

Nested(r, parser) == [r EXCEPT !.state = "running", !.stack = Append(@, parser)]

\* extendsResolver up to context.parse(file): the file is loaded and a parser made for it
Loaded(r, path) ==
    IF path = <<>> \/ path[1].t # "str"
    THEN [r EXCEPT !.state = "failed", !.msg = "file path must be a string"]
    ELSE IF path[1].s \notin DOMAIN r.files
    THEN [r EXCEPT !.state = "failed", !.msg = "no such file"]
    ELSE Nested(IF Len(r.stack) < MaxNesting THEN r ELSE Inner(r),
                FileParser(path[1].s, r.tokens[path[1].s]))

Load ==
    /\ run.state = "awaiting"
    /\ run.pending # <<>>
    /\ run.pending[Len(run.pending)].kind = "extends"
    /\ run' = Loaded(run, run.pending[Len(run.pending)].arg)
    /\ UNCHANGED <<heap, result, scopes, blocks, status, err, out, exportedVariables,
                   options, resolvers, builtIn, parses, lines, history, last, lexer>>

\* parseBlock leaves its loop at EOF: parse returns; for a parser made by
\* context.parse the extends resolver returns its merge and the outer parser goes on
Returned(r) ==
    IF Len(r.stack) = 1 THEN [r EXCEPT !.state = "done"]
    ELSE [r EXCEPT !.stack = SubSeq(@, 1, Len(@) - 1),
                   !.pending = SubSeq(@, 1, Len(@) - 1),
                   !.stored = Append(SelectSeq(@, LAMBDA v : v.depth < Len(r.stack)),
                                     [depth |-> Len(r.stack) - 1, key |-> "extends",
                                      value |-> [t |-> "merged", file |-> Top(r).file]])]

RunEnd ==
    /\ run.state = "running"
    /\ Len(run.stack) > 1 \/ ~run.outer
    /\ \E k \in {SkipNewlines(Top(run).k)} : currToken(k).type = "EOF"
    /\ run' = Returned(run)
    /\ UNCHANGED <<heap, result, scopes, blocks, status, err, out, exportedVariables,
                   options, resolvers, builtIn, parses, lines, history, last, lexer>>

\* parse(text) with the text of the file "m", the files of the loader being `files`
NewRun(files) ==
    [files |-> files, tokens |-> [file \in DOMAIN files |-> tokenize(files[file])],
     stack |-> <<FileParser("m", tokenize(files["m"]))>>, state |-> "running",
     pending |-> <<>>, stored |-> <<>>, target |-> "", msg |-> "", outer |-> FALSE]

\* the lines of the texts
RunLines ==
    {<<"a", "=", "t", "(", "1", ")">>, <<"a", "=", "t", "(", "1">>, <<"s", " ", "1">>,
     <<"e", "x", "t", "e", "n", "d", "s", " ", "\"", "f", "\"">>,
     <<"e", "x", "t", "e", "n", "d", "s", " ", "\"", "m", "\"">>}

\* the texts of at most n lines
RECURSIVE LinesOf(_)
LinesOf(n) ==
    IF n = 0 THEN {<<>>}
    ELSE LinesOf(n - 1) \cup {text \o <<"\n">> \o line : text \in LinesOf(n - 1), line \in RunLines}

InitRun ==
    /\ InitParser
    /\ lexer = NewLexer(<<>>)
    /\ run \in {NewRun([m |-> main, f |-> file]) : main \in LinesOf(MaxRunLines),
                                                  file \in LinesOf(1)}

NextRun == RunLine \/ Settle \/ Load \/ RunEnd

SpecRun == InitRun /\ [][NextRun]_vars

\* the loop of the parser and the promises it awaits are all that runs
SpecRunFair == SpecRun /\ WF_vars(NextRun)

\* the parser a pending promise was made by has consumed no token since the call
C24_Waits(call) ==
    /\ call.depth <= Len(run.stack)
    /\ run.stack[call.depth].k.pos = call.at

(***************************************************************************)
(* C24: while the promise of a tag or statement resolver is pending, the   *)
(* parser that called the resolver has consumed no further token and has   *)
(* called no other resolver, and no value stored is a promise.             *)
(***************************************************************************)
C24_ResolversAreAwaited ==
    run.state # "none" =>
        /\ \A i \in DOMAIN run.pending : C24_Waits(run.pending[i])
        /\ \A i, j \in DOMAIN run.pending :
              run.pending[i].depth = run.pending[j].depth => i = j
        /\ \A i \in DOMAIN run.stored : run.stored[i].value.t # "promise"

\* `a=t(1)`: the promise of the resolver of t is pending and the parser is past the `)`
C24_Witness ==
    /\ run.state = "awaiting"
    /\ Len(run.stack) = 1
    /\ Len(run.pending) = 1
    /\ run.pending[1].kind = "tag"
    /\ run.pending[1].name = "t"
    /\ Top(run).k.pos = run.pending[1].at + 1
    /\ Top(run).k.tokens[run.pending[1].at + 1].type = "RPAREN"

(***************************************************************************)
(* C30: parse comes to an end, with a result or with an error, also when   *)
(* the files extend each other or themselves.                              *)
(***************************************************************************)
C30_ParseTerminates == <>(run.state \in {"done", "failed"})

\* the file "m" extends itself: more than MaxNesting parsers of "m" are under way
C30_Witness ==
    /\ run.state = "awaiting"
    /\ run.outer
    /\ Len(run.stack) = MaxNesting
    /\ \A i \in DOMAIN run.stack : run.stack[i].file = "m"
    /\ Len(run.pending) = MaxNesting
    /\ \A i \in DOMAIN run.pending : run.pending[i].kind = "extends"
====
